---- MODULE Spec2Model ----
(***************************************************************************)
(* A model of the Zebec payment-streaming contract (contract/src/lib.rs,   *)
(* contract/src/utils.rs): the stream store, the fee ledger, the lifecycle  *)
(* calls and the callbacks that resolve the transfers they start.          *)
(*                                                                         *)
(* Amounts are yoctoNEAR / token units, times are seconds                  *)
(* (env::block_timestamp_ms() / 1000).  A call that panics (a failed       *)
(* require!, an unwrap of None, an arithmetic overflow) changes no state,  *)
(* so a panicking call is no step of the model: a call is accepted exactly *)
(* when its guard (the operator <call>_ok) holds.  Subtractions are        *)
(* checked: an underflow is a panic, as in the contract's unit tests.      *)
(* A callback that panics consumes its promise and changes nothing else.   *)
(***************************************************************************)
EXTENDS Integers, FiniteSets, Sequences, TLC

\* ------------------------------------------------------------------ bounds
\* The clock runs from 0 to MaxTime.
MaxTime == 3
\* Streams ever created (the id counter stops at MaxStreams + 1).
MaxStreams == 1
\* Fee claims whose transfer is in flight at the same time.
MaxFeeClaims == 1
\* Streams ever created in the specification of creation and deletion.
MaxCreated == 2
\* Streams that live side by side in the specification of two streams.
MaxPair == 2

\* --------------------------------------------------------- program constants
FEE_BPS_DIVISOR == 10000
\* constants.rs: 100 NEAR; scaled down so that rates on both sides of the
\* ceiling fit the model's integers.
MAX_RATE == 3
\* constants.rs: the contract id stored in a native stream (ignored there).
NATIVE_NEAR_CONTRACT_ID == "test.near"
\* Contract::new: max_fee_rate as given at construction (50 %, so that the
\* fee of a small amount is not always rounded down to 0).
max_fee_rate == 5000
\* Storage cost of one stream, in units of the caller's storage allowance.
StreamStorageCost == 1

\* ------------------------------------------------------------ input domains
Users == {"alice", "bob"}
owner_id == "charlie"
manager_id == "danny"
fee_receiver == "eugene"
Callers == Users \cup {owner_id, manager_id, fee_receiver}
Tokens == {"usdn"}
Rates == 0 .. MAX_RATE
Times == 0 .. MaxTime
FeeRates == {0, max_fee_rate, max_fee_rate + 1}
\* attached deposits: 0, one yocto, and the stream amounts
Deposits == 0 .. (MaxTime * (MAX_RATE - 1))
\* Option::None for the optional arguments of update
None == -1

VARIABLES
    current_id,         \* Contract.current_id
    streams,            \* Contract.streams: id -> Stream
    accounts,           \* Contract.accounts: account -> available storage allowance
    fee_rate,           \* Contract.fee_rate, in basis points
    native_fees,        \* Contract.native_fees
    accumulated_fees,   \* Contract.accumulated_fees: token -> fees
    now,                \* env::block_timestamp_ms() / 1000
    promises,           \* transfers in flight, each with the callback it resolves to
    hist                \* history per stream: deposits, paused time, confirmed payouts

vars == <<current_id, streams, accounts, fee_rate, native_fees, accumulated_fees,
          now, promises, hist>>

\* ----------------------------------------------------------------- helpers
Min(a, b) == IF a <= b THEN a ELSE b

\* The stream a call or callback without a stream refers to.
NoStream ==
    [id |-> 0, sender |-> "", receiver |-> "", balance |-> 0, rate |-> 0,
     start_time |-> 0, end_time |-> 0, withdraw_time |-> 0, is_paused |-> FALSE,
     is_cancelled |-> FALSE, paused_time |-> 0, contract_id |-> "",
     can_update |-> FALSE, can_cancel |-> FALSE, is_native |-> FALSE,
     locked |-> FALSE, paused_amount |-> 0, withdrawn_amount |-> 0]

\* The history of a stream: what its sender deposited with create and update,
\* the seconds it was paused inside its window, the gross amounts of the
\* confirmed transfers to the receiver and to the sender, whether a transfer
\* failed, and whether cancel was accepted.
NoHist ==
    [deposited |-> 0, paused_units |-> 0, paid_receiver |-> 0, paid_sender |-> 0,
     failed |-> FALSE, cancelled |-> FALSE]

\* The fee ledger entry of a stream's asset (0 when not yet created), in the
\* ledger (nf, af) = (native_fees, accumulated_fees).
LedgerIn(nf, af, s) ==
    IF s.is_native THEN nf
    ELSE IF s.contract_id \in DOMAIN af THEN af[s.contract_id]
    ELSE 0

StreamLedger(s) == LedgerIn(native_fees, accumulated_fees, s)

\* calculate_fee_amount, for a given fee rate
\* the fee rounded up instead of down
fee_of_ceil(amount, rate_bps) ==
    (amount * rate_bps + FEE_BPS_DIVISOR - 1) \div FEE_BPS_DIVISOR

fee_of(amount, rate_bps) == (amount * rate_bps) \div FEE_BPS_DIVISOR

calculate_fee_amount(amount) == fee_of(amount, fee_rate)

\* --------------------------------------------------------------- creation
\* the validation without the check that receiver and sender differ
validate_stream_ok_self(sender, receiver, rate, start, end, t) ==
    /\ start >= t
    /\ end >= start
    /\ rate > 0
    /\ rate < MAX_RATE

validate_stream_ok(sender, receiver, rate, start, end, t) ==
    /\ receiver # sender
    /\ start >= t
    /\ end >= start
    /\ rate > 0
    /\ rate < MAX_RATE

\* a stream whose withdraw_time is left at 0 instead of start
validate_stream_withdraw_unset(id, sender, receiver, rate, start, end, can_cancel, can_update, is_native, contract_id) ==
    [id |-> id, sender |-> sender, receiver |-> receiver, rate |-> rate,
     is_paused |-> FALSE, is_cancelled |-> FALSE,
     balance |-> (end - start) * rate,
     start_time |-> start, end_time |-> end, withdraw_time |-> 0,
     paused_time |-> 0,
     contract_id |-> IF is_native THEN NATIVE_NEAR_CONTRACT_ID ELSE contract_id,
     can_cancel |-> can_cancel, can_update |-> can_update, is_native |-> is_native,
     locked |-> FALSE, paused_amount |-> 0, withdrawn_amount |-> 0]

validate_stream(id, sender, receiver, rate, start, end, can_cancel, can_update, is_native, contract_id) ==
    [id |-> id, sender |-> sender, receiver |-> receiver, rate |-> rate,
     is_paused |-> FALSE, is_cancelled |-> FALSE,
     balance |-> (end - start) * rate,
     start_time |-> start, end_time |-> end, withdraw_time |-> start,
     paused_time |-> 0,
     contract_id |-> IF is_native THEN NATIVE_NEAR_CONTRACT_ID ELSE contract_id,
     can_cancel |-> can_cancel, can_update |-> can_update, is_native |-> is_native,
     locked |-> FALSE, paused_amount |-> 0, withdrawn_amount |-> 0]

create_stream_ok(caller, receiver, rate, start, end, attached) ==
    /\ caller \in DOMAIN accounts
    /\ validate_stream_ok(caller, receiver, rate, start, end, now)
    /\ attached = (end - start) * rate
    /\ accounts[caller] >= StreamStorageCost

\* Inserts the validated stream under the current id, advances the counter and
\* charges the caller's storage allowance.
store_stream(stream, caller) ==
    /\ streams' = (current_id :> stream) @@ streams
    /\ hist' = (current_id :> [NoHist EXCEPT !.deposited = stream.balance]) @@ hist
    /\ current_id' = current_id + 1
    /\ accounts' = [accounts EXCEPT ![caller] = @ - StreamStorageCost]
    /\ UNCHANGED <<fee_rate, native_fees, accumulated_fees, now, promises>>

create_stream(caller, receiver, rate, start, end, can_cancel, can_update, attached) ==
    /\ create_stream_ok(caller, receiver, rate, start, end, attached)
    /\ store_stream(validate_stream(current_id, caller, receiver, rate, start, end,
                                    can_cancel, can_update, TRUE,
                                    NATIVE_NEAR_CONTRACT_ID), caller)

\* The creation of a token stream from a token-transfer notification: the token
\* contract calls with the sender's deposit `amount`; the stream is validated
\* like a native one and stored with the token as its asset.
ft_on_transfer(token, sender_id, receiver, rate, start, end, can_cancel, can_update, amount) ==
    /\ token \in Tokens
    /\ create_stream_ok(sender_id, receiver, rate, start, end, amount)
    /\ store_stream(validate_stream(current_id, sender_id, receiver, rate, start, end,
                                    can_cancel, can_update, FALSE, token), sender_id)

\* ------------------------------------------------------- transfers in flight
\* A transfer of `amount` to the account `to` with the callback attached to it
\* (.then(...)): the callback's arguments, and beside them the caller and the
\* state before the call.
Promise(kind, id, caller, to, amount, withdrawal_amount, withdraw_time, fee_amount, contract_id, pre, pre_ledger) ==
    [kind |-> kind, stream_id |-> id, caller |-> caller, slot |-> 0,
     to |-> to, amount |-> amount, withdrawal_amount |-> withdrawal_amount, withdraw_time |-> withdraw_time,
     fee_amount |-> fee_amount, contract_id |-> contract_id,
     pre |-> pre, pre_ledger |-> pre_ledger]

\* a payout that sends the whole amount though a fee was charged
payout_amount_gross(amount, fee) == amount

\* What is sent to the receiver of a payout of `amount`: the fee is taken off
\* when there is one.
payout_amount(amount, fee) == IF fee > 0 THEN amount - fee ELSE amount

\* The fee ledger after `fee` was added to the entry of the stream's asset;
\* the entry of a token is created on its first fee.
credit_fee(s, fee) ==
    IF fee > 0
    THEN IF s.is_native
         THEN /\ native_fees' = native_fees + fee
              /\ UNCHANGED accumulated_fees
         ELSE /\ accumulated_fees' =
                    (s.contract_id :> (StreamLedger(s) + fee)) @@ accumulated_fees
              /\ UNCHANGED native_fees
    ELSE UNCHANGED <<native_fees, accumulated_fees>>

\* The fee ledger after a rollback took `fee` from the entry of the stream's
\* asset again (unwrap_or(0) - fee, then insert).
debit_fee(s, fee) ==
    IF s.is_native
    THEN /\ native_fees' = native_fees - fee
         /\ UNCHANGED accumulated_fees
    ELSE /\ accumulated_fees' =
               (s.contract_id :> (StreamLedger(s) - fee)) @@ accumulated_fees
         /\ UNCHANGED native_fees

\* ---------------------------------------------------------------- withdraw
\* withdraw without the check that the stream is not cancelled
withdraw_common_ok_cancelled(s, caller, t, attached) ==
    /\ attached = 1
    /\ ~s.locked
    /\ s.balance > 0
    /\ t > s.start_time
    /\ caller = s.sender \/ caller = s.receiver

withdraw_common_ok(s, caller, t, attached) ==
    /\ attached = 1
    /\ ~s.locked
    /\ s.balance > 0
    /\ ~s.is_cancelled
    /\ t > s.start_time
    /\ caller = s.sender \/ caller = s.receiver

\* the receiver's share taken up to end_time though the stream is paused
sender_owed_unpaused(s) ==
    IF s.end_time > s.withdraw_time
    THEN s.rate * (s.end_time - s.withdraw_time)
    ELSE 0

\* Sender path: the amount that has been streamed to the receiver and not yet
\* withdrawn by them (negative: the subtraction overflows).
sender_owed(s) ==
    IF s.is_paused
    THEN IF s.end_time > s.withdraw_time
         THEN s.rate * (s.paused_time - s.withdraw_time)
         ELSE 0
    ELSE IF s.end_time > s.withdraw_time
         THEN s.rate * (s.end_time - s.withdraw_time)
         ELSE 0

sender_remaining(s) == s.balance - sender_owed(s)

withdraw_sender_ok(s, t) ==
    /\ t > s.end_time
    /\ sender_owed(s) >= 0
    /\ sender_remaining(s) > 0

withdraw_sender(s) ==
    [s EXCEPT !.balance = @ - sender_remaining(s), !.locked = TRUE]

\* Receiver path: the elapsed time (negative: the subtraction overflows) and
\* the new withdraw_time.
\* the elapsed time after end_time taken up to end_time though the stream is
\* paused
receiver_time_elapsed_unpaused(s, t) ==
    IF t >= s.end_time
    THEN s.end_time - s.withdraw_time
    ELSE IF s.is_paused
         THEN s.paused_time - s.withdraw_time
         ELSE t - s.withdraw_time

receiver_time_elapsed(s, t) ==
    IF t >= s.end_time
    THEN IF s.is_paused
         THEN s.paused_time - s.withdraw_time
         ELSE s.end_time - s.withdraw_time
    ELSE IF s.is_paused
         THEN s.paused_time - s.withdraw_time
         ELSE t - s.withdraw_time

receiver_withdraw_time(s, t) ==
    IF t >= s.end_time THEN t
    ELSE IF s.is_paused THEN s.paused_time
    ELSE t

receiver_amount(s, t) == s.rate * receiver_time_elapsed(s, t)

withdraw_receiver_ok(s, t) ==
    /\ t >= s.end_time => s.withdraw_time < s.end_time
    /\ receiver_time_elapsed(s, t) >= 0
    /\ receiver_amount(s, t) > 0
    /\ s.balance >= receiver_amount(s, t)

\* the receiver path taking the amount after the fee from the balance
withdraw_receiver_net(s, t) ==
    [s EXCEPT !.balance = @ - (receiver_amount(s, t)
                               - calculate_fee_amount(receiver_amount(s, t))),
              !.withdraw_time = receiver_withdraw_time(s, t),
              !.withdrawn_amount = @ + receiver_amount(s, t),
              !.locked = TRUE]

withdraw_receiver(s, t) ==
    [s EXCEPT !.balance = @ - receiver_amount(s, t),
              !.withdraw_time = receiver_withdraw_time(s, t),
              !.withdrawn_amount = @ + receiver_amount(s, t),
              !.locked = TRUE]

withdraw_ok(s, caller, t, attached, gas_ok) ==
    /\ withdraw_common_ok(s, caller, t, attached)
    /\ IF caller = s.sender THEN withdraw_sender_ok(s, t) ELSE withdraw_receiver_ok(s, t)
    /\ ~s.is_native => gas_ok

withdraw(id, caller, attached, gas_ok) ==
    /\ id \in DOMAIN streams
    /\ LET s == streams[id] IN
       /\ withdraw_ok(s, caller, now, attached, gas_ok)
       /\ IF caller = s.sender
          THEN /\ streams' = [streams EXCEPT ![id] = withdraw_sender(s)]
               /\ promises' = promises \cup
                    {Promise("withdraw", id, caller, s.sender, sender_remaining(s),
                             sender_remaining(s), s.withdraw_time,
                             0, s.contract_id, s, StreamLedger(s))}
               /\ UNCHANGED <<native_fees, accumulated_fees>>
          ELSE LET amount == receiver_amount(s, now)
                   fee == calculate_fee_amount(amount)
               IN /\ streams' = [streams EXCEPT ![id] = withdraw_receiver(s, now)]
                  /\ credit_fee(s, fee)
                  /\ promises' = promises \cup
                       {Promise("withdraw", id, caller, s.receiver,
                                payout_amount(amount, fee), amount,
                                receiver_withdraw_time(s, now), fee, s.contract_id,
                                s, StreamLedger(s))}
    /\ UNCHANGED <<current_id, accounts, fee_rate, now, hist>>

\* The stream after the callback of a withdraw's transfer.
resolve_withdraw_stream(s, withdrawal_amount, withdraw_time, res) ==
    IF res
    THEN [s EXCEPT !.locked = FALSE]
    ELSE [s EXCEPT !.locked = FALSE,
                   !.balance = @ + withdrawal_amount,
                   !.withdraw_time = IF withdraw_time < @ THEN withdraw_time ELSE @]

\* The callback panics when the stream is gone (unwrap of None) or when the
\* ledger holds less than the fee to take back.
resolve_withdraw_panics(p, res) ==
    \/ p.stream_id \notin DOMAIN streams
    \/ ~res /\ StreamLedger(streams[p.stream_id]) < p.fee_amount

\* A callback that panicked: its promise is gone, nothing else changed.
callback_panicked ==
    UNCHANGED <<streams, native_fees, accumulated_fees, hist>>

\* The history of a stream after its transfer was resolved.
resolved_hist(h, p, res) ==
    IF ~res THEN [h EXCEPT !.failed = TRUE]
    ELSE IF p.caller = p.pre.sender
         THEN [h EXCEPT !.paid_sender = @ + p.withdrawal_amount]
         ELSE [h EXCEPT !.paid_receiver = @ + p.withdrawal_amount]

\* the resolver clearing the lock of every stream, as a lock of the whole
\* contract would be cleared
internal_resolve_withdraw_stream_unlocks_all(p, res) ==
    IF resolve_withdraw_panics(p, res)
    THEN callback_panicked
    ELSE LET id == p.stream_id
             s == streams[id]
         IN /\ streams' = [j \in DOMAIN streams |->
                  IF j = id
                  THEN resolve_withdraw_stream(s, p.withdrawal_amount, p.withdraw_time, res)
                  ELSE [streams[j] EXCEPT !.locked = FALSE]]
            /\ IF res THEN UNCHANGED <<native_fees, accumulated_fees>>
                      ELSE debit_fee(s, p.fee_amount)
            /\ hist' = [hist EXCEPT ![id] = resolved_hist(@, p, res)]

internal_resolve_withdraw_stream(p, res) ==
    IF resolve_withdraw_panics(p, res)
    THEN callback_panicked
    ELSE LET id == p.stream_id
             s == streams[id]
         IN /\ streams' = [streams EXCEPT ![id] =
                  resolve_withdraw_stream(s, p.withdrawal_amount, p.withdraw_time, res)]
            /\ IF res THEN UNCHANGED <<native_fees, accumulated_fees>>
                      ELSE debit_fee(s, p.fee_amount)
            /\ hist' = [hist EXCEPT ![id] = resolved_hist(@, p, res)]

\* ------------------------------------------------------------ pause, resume
\* pause without the check of the lock
pause_ok_nolock(s, caller, t) ==
    /\ caller = s.sender
    /\ ~s.is_cancelled
    /\ ~s.is_paused
    /\ t > s.start_time /\ t < s.end_time

\* pause without the upper end of the window
pause_ok_after_end(s, caller, t) ==
    /\ ~s.locked
    /\ caller = s.sender
    /\ ~s.is_cancelled
    /\ ~s.is_paused
    /\ t > s.start_time

pause_ok(s, caller, t) ==
    /\ ~s.locked
    /\ caller = s.sender
    /\ ~s.is_cancelled
    /\ ~s.is_paused
    /\ t > s.start_time /\ t < s.end_time

pause_stream(s, t) == [s EXCEPT !.is_paused = TRUE, !.paused_time = t]

pause(id, caller) ==
    /\ id \in DOMAIN streams
    /\ pause_ok(streams[id], caller, now)
    /\ streams' = [streams EXCEPT ![id] = pause_stream(@, now)]
    /\ UNCHANGED <<current_id, accounts, fee_rate, native_fees, accumulated_fees, now,
                   promises, hist>>

\* resume without the clamp to end_time
resume_shift_noclamp(s, t) == t - s.paused_time

\* The time withdraw_time moves forward by on resume (negative: overflow).
resume_shift(s, t) ==
    IF t > s.end_time THEN s.end_time - s.paused_time ELSE t - s.paused_time

\* resume without the check that the stream is paused
resume_ok_unpaused(s, caller, t) ==
    /\ ~s.locked
    /\ caller = s.sender
    /\ ~s.is_cancelled
    /\ resume_shift(s, t) >= 0

resume_ok(s, caller, t) ==
    /\ ~s.locked
    /\ caller = s.sender
    /\ s.is_paused
    /\ ~s.is_cancelled
    /\ resume_shift(s, t) >= 0

resume_stream(s, t) ==
    [s EXCEPT !.is_paused = FALSE,
              !.withdraw_time = @ + resume_shift(s, t),
              !.paused_amount = @ + resume_shift(s, t) * s.rate,
              !.paused_time = 0]

resume(id, caller) ==
    /\ id \in DOMAIN streams
    /\ resume_ok(streams[id], caller, now)
    /\ streams' = [streams EXCEPT ![id] = resume_stream(@, now)]
    /\ UNCHANGED <<current_id, accounts, fee_rate, native_fees, accumulated_fees, now,
                   promises, hist>>

\* ------------------------------------------------------------------ cancel
\* cancel first stores the current time in withdraw_time and then computes
\* the receiver's amount from the stream so changed.
cancel_stamped(s, t) == [s EXCEPT !.withdraw_time = t]

\* The receiver's amount (negative: the subtraction overflows).
cancel_receiver_amt(s, t) ==
    LET s1 == cancel_stamped(s, t) IN
    IF t < s1.start_time THEN 0
    ELSE IF s1.is_paused THEN (s1.paused_time - s1.withdraw_time) * s1.rate
    ELSE (t - s1.withdraw_time) * s1.rate

cancel_withdraw_time(s, t) ==
    LET s1 == cancel_stamped(s, t) IN
    IF t < s1.start_time THEN s1.withdraw_time
    ELSE IF s1.is_paused THEN s1.paused_time
    ELSE s1.withdraw_time

\* cancel without the check of can_cancel
cancel_ok_uncancellable(s, caller, t, attached, gas_ok) ==
    /\ attached = 1
    /\ ~s.locked
    /\ caller = s.sender
    /\ s.end_time > t
    /\ ~s.is_cancelled
    /\ cancel_receiver_amt(s, t) >= 0
    /\ s.balance >= cancel_receiver_amt(s, t)
    /\ (cancel_receiver_amt(s, t) > 0 /\ ~s.is_native) => gas_ok

cancel_ok(s, caller, t, attached, gas_ok) ==
    /\ attached = 1
    /\ ~s.locked
    /\ s.can_cancel
    /\ caller = s.sender
    /\ s.end_time > t
    /\ ~s.is_cancelled
    /\ cancel_receiver_amt(s, t) >= 0
    /\ s.balance >= cancel_receiver_amt(s, t)
    /\ (cancel_receiver_amt(s, t) > 0 /\ ~s.is_native) => gas_ok

\* cancel taking the sender's refund out of the stream as well
cancel_stream_refunds(s, t) ==
    [s EXCEPT !.withdraw_time = cancel_withdraw_time(s, t),
              !.balance = 0,
              !.withdrawn_amount = @ + cancel_receiver_amt(s, t),
              !.is_cancelled = TRUE,
              !.locked = cancel_receiver_amt(s, t) > 0]

\* cancel locking the stream whether or not a transfer follows
cancel_stream_locks(s, t) ==
    [s EXCEPT !.withdraw_time = cancel_withdraw_time(s, t),
              !.balance = @ - cancel_receiver_amt(s, t),
              !.withdrawn_amount = @ + cancel_receiver_amt(s, t),
              !.is_cancelled = TRUE,
              !.locked = TRUE]

cancel_stream(s, t) ==
    [s EXCEPT !.withdraw_time = cancel_withdraw_time(s, t),
              !.balance = @ - cancel_receiver_amt(s, t),
              !.withdrawn_amount = @ + cancel_receiver_amt(s, t),
              !.is_cancelled = TRUE,
              !.locked = cancel_receiver_amt(s, t) > 0]

cancel(id, caller, attached, gas_ok) ==
    /\ id \in DOMAIN streams
    /\ LET s == streams[id]
           receiver_amt == cancel_receiver_amt(s, now)
           fee == calculate_fee_amount(receiver_amt)
       IN /\ cancel_ok(s, caller, now, attached, gas_ok)
          /\ streams' = [streams EXCEPT ![id] = cancel_stream(s, now)]
          /\ hist' = [hist EXCEPT ![id].cancelled = TRUE]
          /\ IF receiver_amt = 0
             THEN /\ UNCHANGED <<native_fees, accumulated_fees, promises>>
             ELSE /\ credit_fee(s, fee)
                  /\ promises' = promises \cup
                       {Promise("cancel", id, caller, s.receiver,
                                payout_amount(receiver_amt, fee),
                                receiver_amt, s.withdraw_time, fee,
                                s.contract_id, s, StreamLedger(s))}
    /\ UNCHANGED <<current_id, accounts, fee_rate, now>>

resolve_cancel_stream(s, withdrawal_amount, res) ==
    IF res
    THEN [s EXCEPT !.locked = FALSE]
    ELSE [s EXCEPT !.locked = FALSE,
                   !.balance = @ + withdrawal_amount,
                   !.is_cancelled = FALSE]

internal_resolve_cancel_stream(p, res) ==
    IF resolve_withdraw_panics(p, res)
    THEN callback_panicked
    ELSE LET id == p.stream_id
             s == streams[id]
         IN /\ streams' = [streams EXCEPT ![id] =
                  resolve_cancel_stream(s, p.withdrawal_amount, res)]
            /\ IF res THEN UNCHANGED <<native_fees, accumulated_fees>>
                      ELSE debit_fee(s, p.fee_amount)
            /\ hist' = [hist EXCEPT ![id] =
                  IF res THEN [@ EXCEPT !.paid_receiver = @ + p.withdrawal_amount]
                         ELSE [@ EXCEPT !.failed = TRUE]]

\* ------------------------------------------------------------------- claim
\* claim without the check that the stream is cancelled
claim_ok_uncancelled(s, caller, attached, gas_ok) ==
    /\ attached = 1
    /\ ~s.locked
    /\ s.sender = caller
    /\ s.balance > 0
    /\ ~s.is_native => gas_ok

claim_ok(s, caller, attached, gas_ok) ==
    /\ attached = 1
    /\ ~s.locked
    /\ s.sender = caller
    /\ s.is_cancelled
    /\ s.balance > 0
    /\ ~s.is_native => gas_ok

claim_stream(s) == [s EXCEPT !.balance = 0, !.locked = TRUE]

claim(id, caller, attached, gas_ok) ==
    /\ id \in DOMAIN streams
    /\ LET s == streams[id] IN
       /\ claim_ok(s, caller, attached, gas_ok)
       /\ streams' = [streams EXCEPT ![id] = claim_stream(s)]
       /\ promises' = promises \cup
            {Promise("claim", id, caller, s.sender, s.balance, s.balance,
                     s.withdraw_time, 0,
                     s.contract_id,
                     s, StreamLedger(s))}
    /\ UNCHANGED <<current_id, accounts, fee_rate, native_fees, accumulated_fees, now,
                   hist>>

\* the claim resolver giving the balance back whatever the transfer's result
resolve_claim_stream_always_restores(s, withdrawal_amount, res) ==
    [s EXCEPT !.locked = FALSE, !.balance = @ + withdrawal_amount]

resolve_claim_stream(s, withdrawal_amount, res) ==
    IF res
    THEN [s EXCEPT !.locked = FALSE]
    ELSE [s EXCEPT !.locked = FALSE, !.balance = @ + withdrawal_amount]

\* the claim resolver taking a fee back out of the ledger on failure, as the
\* resolvers of the payouts to the receiver do
internal_resolve_claim_stream_debits(p, res) ==
    IF p.stream_id \notin DOMAIN streams
    THEN callback_panicked
    ELSE LET id == p.stream_id
             s == streams[id]
         IN /\ streams' = [streams EXCEPT ![id] =
                  resolve_claim_stream(s, p.withdrawal_amount, res)]
            /\ hist' = [hist EXCEPT ![id] =
                  IF res THEN [@ EXCEPT !.paid_sender = @ + p.withdrawal_amount]
                         ELSE [@ EXCEPT !.failed = TRUE]]
            /\ IF res THEN UNCHANGED <<native_fees, accumulated_fees>>
                      ELSE debit_fee(s, calculate_fee_amount(p.withdrawal_amount))

internal_resolve_claim_stream(p, res) ==
    IF p.stream_id \notin DOMAIN streams
    THEN callback_panicked
    ELSE LET id == p.stream_id
             s == streams[id]
         IN /\ streams' = [streams EXCEPT ![id] =
                  resolve_claim_stream(s, p.withdrawal_amount, res)]
            /\ hist' = [hist EXCEPT ![id] =
                  IF res THEN [@ EXCEPT !.paid_sender = @ + p.withdrawal_amount]
                         ELSE [@ EXCEPT !.failed = TRUE]]
            /\ UNCHANGED <<native_fees, accumulated_fees>>

\* ------------------------------------------------------------------ update
unwrap_or(x, default) == IF x = None THEN default ELSE x

\* update without the check that the stream is not cancelled
update_caller_ok_cancelled(s, caller, t) ==
    /\ s.is_native
    /\ ~s.locked
    /\ caller = s.sender
    /\ s.can_update
    /\ s.start_time > t

\* update accepted after the stream has started
update_caller_ok_started(s, caller, t) ==
    /\ s.is_native
    /\ ~s.locked
    /\ caller = s.sender
    /\ s.can_update
    /\ ~s.is_cancelled

\* The checks of update that do not depend on the new values.
update_caller_ok(s, caller, t) ==
    /\ s.is_native
    /\ ~s.locked
    /\ caller = s.sender
    /\ s.can_update
    /\ ~s.is_cancelled
    /\ s.start_time > t

update_ok(s, caller, t, start, end, rate, attached) ==
    LET rate1 == unwrap_or(rate, s.rate)
        start_time == unwrap_or(start, s.start_time)
        end_time == unwrap_or(end, s.end_time)
        stream_amount == (end_time - start_time) * rate1
    IN /\ update_caller_ok(s, caller, t)
       /\ start_time < end_time
       /\ start_time # s.start_time => start_time >= t
       /\ rate1 > 0
       /\ rate1 < MAX_RATE
       /\ IF stream_amount > s.balance
          THEN attached >= stream_amount - s.balance
          ELSE attached = 1

\* update leaving withdraw_time where it was
update_stream_keeps_withdraw_time(s, start, end, rate, attached) ==
    LET rate1 == unwrap_or(rate, s.rate)
        start_time == unwrap_or(start, s.start_time)
        end_time == unwrap_or(end, s.end_time)
        stream_amount == (end_time - start_time) * rate1
    IN [s EXCEPT !.start_time = start_time,
                 !.end_time = end_time,
                 !.rate = rate1,
                 !.balance = IF stream_amount > @ THEN @ + attached ELSE @]

update_stream(s, start, end, rate, attached) ==
    LET rate1 == unwrap_or(rate, s.rate)
        start_time == unwrap_or(start, s.start_time)
        end_time == unwrap_or(end, s.end_time)
        stream_amount == (end_time - start_time) * rate1
    IN [s EXCEPT !.start_time = start_time,
                 !.withdraw_time = start_time,
                 !.end_time = end_time,
                 !.rate = rate1,
                 !.balance = IF stream_amount > @ THEN @ + attached ELSE @]

\* What update takes of the attached deposit into the stream: all of it when
\* the new amount exceeds the balance; otherwise one yocto is attached only to
\* confirm the call and the stream takes nothing.
update_deposit(s, start, end, rate, attached) ==
    LET rate1 == unwrap_or(rate, s.rate)
        start_time == unwrap_or(start, s.start_time)
        end_time == unwrap_or(end, s.end_time)
    IN IF (end_time - start_time) * rate1 > s.balance THEN attached ELSE 0

update(id, caller, start, end, rate, attached) ==
    /\ id \in DOMAIN streams
    /\ update_ok(streams[id], caller, now, start, end, rate, attached)
    /\ streams' = [streams EXCEPT ![id] = update_stream(@, start, end, rate, attached)]
    /\ hist' = [hist EXCEPT ![id].deposited =
                   @ + update_deposit(streams[id], start, end, rate, attached)]
    /\ UNCHANGED <<current_id, accounts, fee_rate, native_fees, accumulated_fees, now,
                   promises>>

\* ---------------------------------------------------------- manager, owner
\* the deletion without the check of the balance
delete_stream_ok_funded(s, t) == s.end_time < t

delete_stream_ok(s, t) ==
    /\ s.end_time < t
    /\ s.balance = 0

delete_streams(stream_ids, caller, attached) ==
    /\ attached = 1
    /\ caller = manager_id
    /\ stream_ids # {}
    /\ \A id \in stream_ids : id \in DOMAIN streams /\ delete_stream_ok(streams[id], now)
    /\ streams' = [id \in DOMAIN streams \ stream_ids |-> streams[id]]
    /\ hist' = [id \in DOMAIN hist \ stream_ids |-> hist[id]]
    /\ UNCHANGED <<current_id, accounts, fee_rate, native_fees, accumulated_fees, now,
                   promises>>

change_fee_rate(new_rate, caller, attached) ==
    /\ attached = 1
    /\ caller = owner_id
    /\ new_rate <= max_fee_rate
    /\ fee_rate' = new_rate
    /\ UNCHANGED <<current_id, streams, accounts, native_fees, accumulated_fees, now,
                   promises, hist>>

\* --------------------------------------------------------------- fee claims
FeePromises == {p \in promises : p.kind \in {"fee_native", "fee_ft"}}

\* Tells fee claims in flight with equal arguments apart.
FreeSlot == CHOOSE k \in 1 .. MaxFeeClaims : \A p \in FeePromises : p.slot # k

claim_fee_ft(contract_id, caller, attached) ==
    /\ Cardinality(FeePromises) < MaxFeeClaims
    /\ attached = 1
    /\ caller = fee_receiver
    /\ contract_id \in DOMAIN accumulated_fees
    /\ LET amount == accumulated_fees[contract_id] IN
       /\ accumulated_fees' = [accumulated_fees EXCEPT ![contract_id] = 0]
       /\ promises' = promises \cup
            {[Promise("fee_ft", 0, caller, fee_receiver, amount, amount, 0, 0,
                      contract_id, NoStream,
                      amount)
                EXCEPT !.slot = FreeSlot]}
    /\ UNCHANGED <<current_id, streams, accounts, fee_rate, native_fees, now, hist>>

internal_resolve_claim_fee_ft(p, res) ==
    /\ IF res
       THEN UNCHANGED accumulated_fees
       ELSE accumulated_fees' = [accumulated_fees EXCEPT ![p.contract_id] =
                                    @ + p.withdrawal_amount]
    /\ UNCHANGED <<streams, native_fees, hist>>

claim_fee_native(caller, attached) ==
    /\ Cardinality(FeePromises) < MaxFeeClaims
    /\ attached = 1
    /\ caller = fee_receiver
    /\ native_fees' = 0
    /\ promises' = promises \cup
         {[Promise("fee_native", 0, caller, fee_receiver, native_fees, native_fees, 0, 0,
                   NATIVE_NEAR_CONTRACT_ID,
                   NoStream, native_fees) EXCEPT !.slot = FreeSlot]}
    /\ UNCHANGED <<current_id, streams, accounts, fee_rate, accumulated_fees, now, hist>>

internal_resolve_claim_fee_native(p, res) ==
    /\ native_fees' = IF res THEN native_fees ELSE native_fees + p.withdrawal_amount
    /\ UNCHANGED <<streams, accumulated_fees, hist>>

\* ---------------------------------------------------------------- callbacks
\* The transfer of promise p ends with result res (TRUE: successful) and the
\* callback attached to it runs, as a call of its own.
on_transfer_result(p, res) ==
    /\ p \in promises
    /\ promises' = promises \ {p}
    /\ CASE p.kind = "withdraw" -> internal_resolve_withdraw_stream(p, res)
         [] p.kind = "cancel" -> internal_resolve_cancel_stream(p, res)
         [] p.kind = "claim" -> internal_resolve_claim_stream(p, res)
         [] p.kind = "fee_ft" -> internal_resolve_claim_fee_ft(p, res)
         [] p.kind = "fee_native" -> internal_resolve_claim_fee_native(p, res)
    /\ UNCHANGED <<current_id, accounts, fee_rate, now>>

\* ------------------------------------------------------------------ clock
\* One second passes.  A stream that is paused inside its window has one more
\* paused second.
Tick ==
    /\ now < MaxTime
    /\ now' = now + 1
    /\ hist' = [id \in DOMAIN hist |->
                  IF /\ id \in DOMAIN streams
                     /\ streams[id].is_paused
                     /\ now < streams[id].end_time
                  THEN [hist[id] EXCEPT !.paused_units = @ + 1]
                  ELSE hist[id]]
    /\ UNCHANGED <<current_id, streams, accounts, fee_rate, native_fees,
                   accumulated_fees, promises>>

\* ------------------------------------------------------------------- spec
Init ==
    /\ current_id = 1
    /\ streams = << >>
    /\ accounts = [a \in Users |-> IF a = "alice" THEN MaxStreams ELSE 0]
    /\ fee_rate \in {0, max_fee_rate}
    /\ native_fees = 0
    /\ accumulated_fees = << >>
    /\ now = 0
    /\ promises = {}
    /\ hist = << >>

\* Attached deposits and gas of the calls that take no amount.
Yoctos == {0, 1}

Next ==
    \/ Tick
    \/ \E caller \in Users, receiver \in Users, rate \in Rates, start \in Times,
          end \in Times :
          /\ current_id <= MaxStreams
          /\ validate_stream_ok(caller, receiver, rate, start, end, now)
          /\ \E cc \in BOOLEAN, cu \in BOOLEAN, attached \in Deposits :
                create_stream(caller, receiver, rate, start, end, cc, cu, attached)
    \/ \E caller \in Users, receiver \in Users, rate \in Rates, start \in Times,
          end \in Times :
          /\ current_id <= MaxStreams
          /\ validate_stream_ok(caller, receiver, rate, start, end, now)
          /\ \E token \in Tokens, cc \in BOOLEAN, cu \in BOOLEAN, amount \in Deposits :
                ft_on_transfer(token, caller, receiver, rate, start, end, cc, cu, amount)
    \/ \E id \in DOMAIN streams, caller \in Callers :
          /\ update_caller_ok(streams[id], caller, now)
          /\ \E start \in Times \cup {None}, end \in Times \cup {None},
                rate \in Rates \cup {None}, attached \in Deposits :
                update(id, caller, start, end, rate, attached)
    \/ \E id \in DOMAIN streams, caller \in Callers, attached \in Yoctos,
          gas_ok \in BOOLEAN : withdraw(id, caller, attached, gas_ok)
    \/ \E id \in DOMAIN streams, caller \in Callers : pause(id, caller)
    \/ \E id \in DOMAIN streams, caller \in Callers : resume(id, caller)
    \/ \E id \in DOMAIN streams, caller \in Callers, attached \in Yoctos,
          gas_ok \in BOOLEAN : cancel(id, caller, attached, gas_ok)
    \/ \E id \in DOMAIN streams, caller \in Callers, attached \in Yoctos,
          gas_ok \in BOOLEAN : claim(id, caller, attached, gas_ok)
    \/ \E ids \in SUBSET (1 .. MaxStreams), caller \in Callers, attached \in Yoctos :
          delete_streams(ids, caller, attached)
    \/ \E new_rate \in FeeRates, caller \in Callers, attached \in Yoctos :
          change_fee_rate(new_rate, caller, attached)
    \/ \E caller \in Callers, attached \in Yoctos : claim_fee_native(caller, attached)
    \/ \E token \in Tokens, caller \in Callers, attached \in Yoctos :
          claim_fee_ft(token, caller, attached)
    \/ \E p \in promises, res \in BOOLEAN : on_transfer_result(p, res)

Spec == Init /\ [][Next]_vars

\* ------------------------------------------------- creation and deletion
\* The contract with a storage allowance for MaxCreated streams, and of its
\* calls those that write the id counter, the storage allowances and the
\* set of stored streams: the creation of native and of token streams and the
\* manager's deletion, and the clock.  The streams are created cancellable
\* and updatable, as in the contract's unit tests.
InitCreate ==
    /\ current_id = 1
    /\ streams = << >>
    /\ accounts = [a \in Users |-> IF a = "alice" THEN MaxCreated ELSE 0]
    /\ fee_rate \in {0, max_fee_rate}
    /\ native_fees = 0
    /\ accumulated_fees = << >>
    /\ now = 0
    /\ promises = {}
    /\ hist = << >>

NextCreate ==
    \/ Tick
    \/ \E caller \in Users, receiver \in Users, rate \in Rates, start \in Times,
          end \in Times :
          /\ current_id <= MaxCreated
          /\ validate_stream_ok(caller, receiver, rate, start, end, now)
          /\ \E attached \in Deposits :
                create_stream(caller, receiver, rate, start, end, TRUE, TRUE, attached)
    \/ \E caller \in Users, receiver \in Users, rate \in Rates, start \in Times,
          end \in Times :
          /\ current_id <= MaxCreated
          /\ validate_stream_ok(caller, receiver, rate, start, end, now)
          /\ \E token \in Tokens, amount \in Deposits :
                ft_on_transfer(token, caller, receiver, rate, start, end, TRUE, TRUE,
                               amount)
    \/ \E ids \in SUBSET (1 .. MaxCreated), caller \in Callers, attached \in Yoctos :
          delete_streams(ids, caller, attached)

SpecCreate == InitCreate /\ [][NextCreate]_vars

\* ------------------------------------------------------------ two streams
\* The contract with streams side by side: a sender with the storage allowance
\* for MaxPair native, cancellable streams of rate 1 to the same receiver, the
\* lifecycle calls on them with their callbacks, and the manager's deletion.
PairStarts == {0, 1}
PairEnds == {2}

InitPair ==
    /\ current_id = 1
    /\ streams = << >>
    /\ accounts = [a \in Users |-> IF a = "alice" THEN MaxPair ELSE 0]
    /\ fee_rate = max_fee_rate
    /\ native_fees = 0
    /\ accumulated_fees = << >>
    /\ now = 0
    /\ promises = {}
    /\ hist = << >>

NextPair ==
    \/ Tick
    \/ \E start \in PairStarts, end \in PairEnds :
          /\ current_id <= MaxPair
          /\ create_stream("alice", "bob", 1, start, end, TRUE, FALSE, end - start)
    \/ \E id \in DOMAIN streams, caller \in Users : withdraw(id, caller, 1, TRUE)
    \/ \E id \in DOMAIN streams, caller \in Users : pause(id, caller)
    \/ \E id \in DOMAIN streams, caller \in Users : resume(id, caller)
    \/ \E id \in DOMAIN streams, caller \in Users : cancel(id, caller, 1, TRUE)
    \/ \E id \in DOMAIN streams, caller \in Users : claim(id, caller, 1, TRUE)
    \/ \E ids \in SUBSET (1 .. MaxPair), caller \in Callers :
          delete_streams(ids, caller, 1)
    \/ \E p \in promises, res \in BOOLEAN : on_transfer_result(p, res)

SpecPair == InitPair /\ [][NextPair]_vars

\* ------------------------------------------------- the width of the amounts
\* The amounts at their width.  A u64 or u128 value is the sequence of its
\* bytes, lowest first: the stream amount u128::from(end_time - start_time) *
\* rate is computed on the bytes, so that the product of a rate below MAX_RATE
\* and a 64-bit duration is the number the contract computes.  An overflow of
\* the multiplication panics when the contract is built with overflow checks
\* and wraps modulo 2^128 when it is built without them.
LimbBase == 256
U64Limbs == 8
U128Limbs == 16

\* The number v < 2^24 on n bytes.
Limbs(v, n) ==
    [i \in 1 .. n |-> IF i = 1 THEN v % LimbBase
                      ELSE IF i = 2 THEN (v \div LimbBase) % LimbBase
                      ELSE IF i = 3 THEN (v \div (LimbBase * LimbBase)) % LimbBase
                      ELSE 0]

\* 2^k on n bytes.
Pow2Limbs(k, n) == [i \in 1 .. n |-> IF i = (k \div 8) + 1 THEN 2 ^ (k % 8) ELSE 0]

\* u128::from: the value on more bytes.
Widen(a, n) == [i \in 1 .. n |-> IF i <= Len(a) THEN a[i] ELSE 0]

RECURSIVE LessFrom(_, _, _)
LessFrom(a, b, i) ==
    IF i = 0 THEN FALSE
    ELSE IF a[i] # b[i] THEN a[i] < b[i]
    ELSE LessFrom(a, b, i - 1)

\* a < b for two values on the same number of bytes.
Less(a, b) == LessFrom(a, b, Len(a))

IsZero(a) == \A i \in 1 .. Len(a) : a[i] = 0

RECURSIVE SubFrom(_, _, _, _)
SubFrom(a, b, i, borrow) ==
    IF i > Len(a) THEN << >>
    ELSE LET d == a[i] - b[i] - borrow
         IN IF d < 0 THEN <<d + LimbBase>> \o SubFrom(a, b, i + 1, 1)
                     ELSE <<d>> \o SubFrom(a, b, i + 1, 0)

\* a - b for a >= b on the same number of bytes.
Sub(a, b) == SubFrom(a, b, 1, 0)

RECURSIVE AddFrom(_, _, _, _)
AddFrom(a, b, i, carry) ==
    IF i > Len(a) THEN << >>
    ELSE LET d == a[i] + b[i] + carry
         IN <<d % LimbBase>> \o AddFrom(a, b, i + 1, d \div LimbBase)

\* a + b on the bytes of a (the sums of the model stay below 2^128).
Add(a, b) == AddFrom(a, b, 1, 0)

\* The bytes of a up to its highest byte that is not 0.
Trim(a) ==
    LET used == {i \in 1 .. Len(a) : a[i] # 0}
    IN IF used = {} THEN << >>
       ELSE SubSeq(a, 1, CHOOSE i \in used : \A j \in used : j <= i)

RECURSIVE ColumnSum(_, _, _, _)
\* The sum of the products a[i] * b[j] with i + j = k + 1, from i on.
ColumnSum(a, b, k, i) ==
    IF i > Len(a) \/ i > k THEN 0
    ELSE (IF k + 1 - i <= Len(b) THEN a[i] * b[k + 1 - i] ELSE 0)
         + ColumnSum(a, b, k, i + 1)

RECURSIVE MulFrom(_, _, _, _)
MulFrom(a, b, k, carry) ==
    IF k > Len(a) + Len(b) THEN << >>
    ELSE LET d == carry + ColumnSum(a, b, k, 1)
         IN <<d % LimbBase>> \o MulFrom(a, b, k + 1, d \div LimbBase)

\* The product of a and b in full, on Len(a) + Len(b) bytes.
Mul(a, b) == Widen(MulFrom(Trim(a), Trim(b), 1, 0), Len(a) + Len(b))

\* The product does not fit n bytes.
Overflows(x, n) == \E i \in n + 1 .. Len(x) : x[i] # 0

\* The product modulo 2^(8 n).
Wrap(x, n) == SubSeq(x, 1, n)

\* MAX_RATE = 100_000_000_000_000_000_000_000_000 = (10^6 * 10^7)^2, 100 NEAR in
\* yoctoNEAR.
MAX_RATE_U128 ==
    LET e13 == Wrap(Mul(Limbs(1000000, U64Limbs), Limbs(10000000, U64Limbs)), U64Limbs)
    IN Mul(e13, e13)

\* The rates and the times of the calls: the least and the greatest the checks
\* accept, powers of two between them, and the first rate they refuse.
WideRates ==
    {Limbs(0, U128Limbs), Limbs(1, U128Limbs), Pow2Limbs(65, U128Limbs),
     Sub(MAX_RATE_U128, Limbs(1, U128Limbs)), MAX_RATE_U128}

WideTimes ==
    {Limbs(0, U64Limbs), Limbs(1, U64Limbs), Limbs(2, U64Limbs),
     Pow2Limbs(63, U64Limbs), [i \in 1 .. U64Limbs |-> LimbBase - 1]}

\* The checks of validate_stream on the rate and the times.
validate_amount_ok(rate, start, end, t) ==
    /\ ~Less(start, t)
    /\ ~Less(end, start)
    /\ ~IsZero(rate)
    /\ Less(rate, MAX_RATE_U128)

\* u128::from(end_time - start_time) * rate in full, before it is cut to 128
\* bits.
stream_amount_full(rate, start, end) == Mul(Widen(Sub(end, start), U128Limbs), rate)

\* The multiplication goes through: it fits, or the build does not check.
stream_amount_ok(rate, start, end, overflow_checks) ==
    Overflows(stream_amount_full(rate, start, end), U128Limbs) => ~overflow_checks

\* the amount the contract holds in the u128
stream_amount(rate, start, end) == Wrap(stream_amount_full(rate, start, end), U128Limbs)

\* The terms and the balance of the stream validate_stream returns.
validate_amount(rate, start, end) ==
    [rate |-> rate, start_time |-> start, end_time |-> end, withdraw_time |-> start,
     balance |-> stream_amount(rate, start, end)]

\* create_stream at the width of its amounts: the attached deposit equals the
\* computed amount.
create_stream_u128(rate, start, end, attached, overflow_checks) ==
    /\ current_id = 1
    /\ validate_amount_ok(rate, start, end, Limbs(now, U64Limbs))
    /\ stream_amount_ok(rate, start, end, overflow_checks)
    /\ attached = validate_amount(rate, start, end).balance
    /\ streams' = (current_id :> validate_amount(rate, start, end))
    /\ current_id' = current_id + 1
    /\ UNCHANGED <<accounts, fee_rate, native_fees, accumulated_fees, now, promises, hist>>

\* The checks of update on the rate and the times.
update_amount_ok(s, rate, start, end, t) ==
    /\ Less(t, s.start_time)
    /\ Less(start, end)
    /\ start # s.start_time => ~Less(start, t)
    /\ ~IsZero(rate)
    /\ Less(rate, MAX_RATE_U128)

\* update at the width of its amounts: the sender attaches what the new
\* amount exceeds the balance by, or one yocto when it does not exceed it.
update_u128(id, rate, start, end, overflow_checks) ==
    /\ id \in DOMAIN streams
    /\ LET s == streams[id]
           amount == stream_amount(rate, start, end)
           attached == IF Less(s.balance, amount)
                       THEN Sub(amount, s.balance)
                       ELSE Limbs(1, U128Limbs)
       IN /\ update_amount_ok(s, rate, start, end, Limbs(now, U64Limbs))
          /\ stream_amount_ok(rate, start, end, overflow_checks)
          /\ streams' = [streams EXCEPT ![id] =
                 [rate |-> rate, start_time |-> start, end_time |-> end,
                  withdraw_time |-> start,
                  balance |-> IF Less(s.balance, amount)
                              THEN Add(s.balance, attached)
                              ELSE s.balance]]
    /\ UNCHANGED <<current_id, accounts, fee_rate, native_fees, accumulated_fees, now,
                   promises, hist>>

InitAmount ==
    /\ current_id = 1
    /\ streams = << >>
    /\ accounts = [a \in Users |-> IF a = "alice" THEN MaxStreams ELSE 0]
    /\ fee_rate = 0
    /\ native_fees = 0
    /\ accumulated_fees = << >>
    /\ now = 0
    /\ promises = {}
    /\ hist = << >>

NextAmount ==
    \/ \E rate \in WideRates, start \in WideTimes, end \in WideTimes,
          overflow_checks \in BOOLEAN :
          \E attached \in {Limbs(0, U128Limbs), stream_amount(rate, start, end)} :
              create_stream_u128(rate, start, end, attached, overflow_checks)
    \/ \E id \in DOMAIN streams, rate \in WideRates, start \in WideTimes,
          end \in WideTimes, overflow_checks \in BOOLEAN :
          update_u128(id, rate, start, end, overflow_checks)

SpecAmount == InitAmount /\ [][NextAmount]_vars

\* ================================================================ properties
\* The delivery of a transfer's result to the resolver of a stream.
StreamKinds == {"withdraw", "cancel", "claim"}

\* The fee ledger of a stream's asset in the next state.
StreamLedgerNext(s) == LedgerIn(native_fees', accumulated_fees', s)

\* A promise of a payout to the receiver started by withdraw.
ReceiverWithdrawPromise(p) == p.kind = "withdraw" /\ p.caller = p.pre.receiver

\* ------------------------------------------------------------------------ C1
\* C1: when the transfer started by a receiver withdraw fails, the stream after
\* internal_resolve_withdraw_stream has its balance, its withdraw_time and the
\* fee ledger of its asset at their values before the withdraw, and is unlocked.
C1_FailedWithdrawRestores ==
    [][\A p \in promises :
          (ReceiverWithdrawPromise(p) /\ on_transfer_result(p, FALSE)) =>
              /\ p.stream_id \in DOMAIN streams'
              /\ streams'[p.stream_id].balance = p.pre.balance
              /\ streams'[p.stream_id].withdraw_time = p.pre.withdraw_time
              /\ StreamLedgerNext(p.pre) = p.pre_ledger
              /\ ~streams'[p.stream_id].locked]_vars

\* ------------------------------------------------------------------------ C2
\* Every call of a lifecycle operation on stream s is rejected, whoever calls
\* and whatever is attached.
RejectsAllCalls(s) ==
    \A caller \in Callers :
        /\ \A attached \in Yoctos, gas_ok \in BOOLEAN :
              /\ ~withdraw_ok(s, caller, now, attached, gas_ok)
              /\ ~cancel_ok(s, caller, now, attached, gas_ok)
              /\ ~claim_ok(s, caller, attached, gas_ok)
        /\ ~pause_ok(s, caller, now)
        /\ ~resume_ok(s, caller, now)
        /\ \/ ~update_caller_ok(s, caller, now)
           \/ \A start \in Times \cup {None}, end \in Times \cup {None},
                 rate \in Rates \cup {None}, attached \in Deposits :
                 ~update_ok(s, caller, now, start, end, rate, attached)

\* A step is the resolver of a transfer of stream id.
ResolverStep(id) ==
    \E p \in promises, res \in BOOLEAN :
        p.kind \in StreamKinds /\ p.stream_id = id /\ on_transfer_result(p, res)

\* A step changes the fee ledger by a fee claim or its resolver.
FeeClaimStep ==
    \/ \E caller \in Callers, attached \in Yoctos : claim_fee_native(caller, attached)
    \/ \E t \in Tokens, caller \in Callers, attached \in Yoctos :
          claim_fee_ft(t, caller, attached)
    \/ \E p \in promises, res \in BOOLEAN :
          p.kind \in {"fee_ft", "fee_native"} /\ on_transfer_result(p, res)

\* C2: while a stream is locked every call of withdraw, pause, resume, cancel,
\* claim or update on it is rejected, so the stream changes only by the
\* resolver of its transfer (or its deletion by the manager), and the fee
\* ledger only by that resolver, a fee claim or a call on another stream; a
\* second withdraw by the receiver before the callback is among the rejected.
C2_LockedRejectsCalls ==
    [][\A id \in DOMAIN streams :
          streams[id].locked =>
              /\ RejectsAllCalls(streams[id])
              /\ \/ id \notin DOMAIN streams'
                 \/ streams'[id] = streams[id]
                 \/ ResolverStep(id)
              /\ \/ <<native_fees, accumulated_fees>>' = <<native_fees, accumulated_fees>>
                 \/ ResolverStep(id)
                 \/ FeeClaimStep
                 \/ \E other \in DOMAIN streams \ {id} :
                       other \notin DOMAIN streams' \/ streams'[other] # streams[other]]_vars

\* A receiver's withdraw is in flight on a locked stream, and but for the lock
\* the receiver could withdraw again now.
C2_Witness ==
    \E p \in promises :
        /\ ReceiverWithdrawPromise(p)
        /\ p.stream_id \in DOMAIN streams
        /\ streams[p.stream_id].locked
        /\ withdraw_ok([streams[p.stream_id] EXCEPT !.locked = FALSE],
                       p.caller, now, 1, TRUE)

\* ------------------------------------------------------------------------ C3
\* C3: when the sender cancels a started, unpaused, cancellable stream at a time
\* t with start_time <= t < end_time, the balance goes down by exactly
\* rate * (t - withdraw_time) and withdrawn_amount goes up by the same amount.
C3_CancelPaysAccrued ==
    [][\A id \in DOMAIN streams :
          LET s == streams[id] IN
          (/\ s.start_time <= now /\ now < s.end_time
           /\ ~s.is_paused
           /\ cancel(id, s.sender, 1, TRUE)) =>
              /\ streams'[id].balance = s.balance - s.rate * (now - s.withdraw_time)
              /\ streams'[id].withdrawn_amount =
                    s.withdrawn_amount + s.rate * (now - s.withdraw_time)]_vars

\* ------------------------------------------------------------------------ C4
\* C4: in every reachable state every stream has
\* start_time <= withdraw_time <= end_time.
C4_WithdrawTimeInWindow ==
    \A id \in DOMAIN streams :
        /\ streams[id].start_time <= streams[id].withdraw_time
        /\ streams[id].withdraw_time <= streams[id].end_time

\* ------------------------------------------------------------------------ C5
\* C5: the balance of every stream is at least zero and at most what its sender
\* deposited into it (at creation and with updates before the start), in every
\* reachable state, after every operation and every rollback.
C5_BalanceWithinDeposits ==
    \A id \in DOMAIN streams :
        /\ streams[id].balance >= 0
        /\ streams[id].balance <= hist[id].deposited

\* A failed transfer has been rolled back to a balance that is everything the
\* sender deposited, which an update has raised above the stream's amount.
C5_Witness ==
    \E id \in DOMAIN streams :
        /\ hist[id].failed
        /\ ~streams[id].locked
        /\ streams[id].balance = hist[id].deposited
        /\ streams[id].balance >
              streams[id].rate * (streams[id].end_time - streams[id].start_time)

\* ------------------------------------------------------------------------ C6
\* C6: every stream that becomes locked is unlocked again once the result of
\* its transfer is delivered: the resolver runs to completion and clears
\* locked, after success and after failure, whatever was interleaved (fee
\* claims and their callbacks, fee-rate changes, deletion by the manager).
C6_ResolverUnlocks ==
    [][\A p \in promises, res \in BOOLEAN :
          (p.kind \in StreamKinds /\ on_transfer_result(p, res)) =>
              /\ p.stream_id \in DOMAIN streams'
              /\ ~streams'[p.stream_id].locked]_vars

\* ------------------------------------------------------------------------ C7
\* C7: however receiver withdrawals, cancellations, fee claims and their
\* callbacks interleave, the fee ledger of an asset is never below zero and the
\* debit of a rollback never fails: the resolver of a failed payout to the
\* receiver takes exactly the fee it charged back out of the ledger.
C7_RollbackDebitSucceeds ==
    [][/\ native_fees >= 0
       /\ \A c \in DOMAIN accumulated_fees : accumulated_fees[c] >= 0
       /\ \A p \in promises :
             (/\ p.kind \in {"withdraw", "cancel"}
              /\ p.stream_id \in DOMAIN streams
              /\ on_transfer_result(p, FALSE)) =>
                 /\ StreamLedger(p.pre) >= p.fee_amount
                 /\ StreamLedgerNext(p.pre) = StreamLedger(p.pre) - p.fee_amount]_vars

\* ------------------------------------------------------------------------ C8
\* What the receiver can withdraw from stream s now (nothing when the call is
\* rejected).
ReceiverCanWithdraw(s) ==
    IF withdraw_ok(s, s.receiver, now, 1, TRUE) THEN receiver_amount(s, now) ELSE 0

\* C8: for a stream that was never cancelled and whose transfers all succeeded,
\* with pauses of total duration D (each from its pause to the earlier of its
\* resume and end_time), what the receiver has been paid plus what the receiver
\* can still withdraw once the stream has ended is
\* rate * (end_time - start_time) - rate * D, however many pauses there were
\* and whenever the receiver withdrew.
C8_ReceiverTotal ==
    \A id \in DOMAIN streams :
        LET s == streams[id]
            h == hist[id]
        IN (/\ ~h.cancelled /\ ~h.failed
            /\ ~s.locked
            /\ now >= s.end_time) =>
               h.paid_receiver + ReceiverCanWithdraw(s) =
                   s.rate * (s.end_time - s.start_time) - s.rate * h.paused_units

\* An ended stream that was paused twice (one pause closed by a resume, and
\* paused again until the end) for two seconds or more, and whose receiver has
\* been paid the whole of what was left to them.
C8_Witness ==
    \E id \in DOMAIN streams :
        LET s == streams[id]
            h == hist[id]
        IN /\ ~h.cancelled /\ ~h.failed /\ ~s.locked
           /\ now >= s.end_time
           /\ s.is_paused /\ s.paused_amount > 0
           /\ h.paused_units >= 2
           /\ h.paid_receiver > 0
           /\ h.paid_receiver =
                 s.rate * (s.end_time - s.start_time) - s.rate * h.paused_units

\* ------------------------------------------------------------------------ C9
\* What the receiver is still owed by stream s after its end.
Owed(s) ==
    IF s.withdraw_time >= s.end_time THEN 0
    ELSE IF s.is_paused THEN s.rate * (s.paused_time - s.withdraw_time)
    ELSE s.rate * (s.end_time - s.withdraw_time)

\* C9: a sender withdraw after end_time transfers exactly balance - owed and
\* leaves the balance at owed; and from a stream that holds its whole amount
\* rate * (end_time - start_time), was paused for a total of D seconds and has
\* paid the receiver nothing, the sender receives rate * D.
C9_SenderWithdrawAfterEnd ==
    [][\A id \in DOMAIN streams :
          LET s == streams[id] IN
          withdraw(id, s.sender, 1, TRUE) =>
              /\ streams'[id].balance = Owed(s)
              /\ \A p \in promises' \ promises :
                    /\ p.withdrawal_amount = s.balance - Owed(s)
                    /\ (/\ hist[id].paid_receiver = 0
                        /\ s.balance = s.rate * (s.end_time - s.start_time)) =>
                           p.withdrawal_amount = s.rate * hist[id].paused_units]_vars

\* ----------------------------------------------------------------------- C11
\* C11: when the sender cancels a paused stream at a time t after paused_time
\* and before end_time, the call succeeds, the receiver's amount is
\* rate * (paused_time - w) with w the withdraw_time before the call,
\* withdraw_time becomes paused_time and is_cancelled becomes true.
C11_CancelPausedStream ==
    [][\A id \in DOMAIN streams :
          LET s == streams[id] IN
          (/\ s.is_paused /\ s.paused_time < now /\ now < s.end_time
           /\ s.can_cancel /\ ~s.is_cancelled /\ ~s.locked) =>
              /\ cancel_ok(s, s.sender, now, 1, TRUE)
              /\ cancel(id, s.sender, 1, TRUE) =>
                    /\ streams'[id].balance =
                          s.balance - s.rate * (s.paused_time - s.withdraw_time)
                    /\ streams'[id].withdraw_time = s.paused_time
                    /\ streams'[id].is_cancelled]_vars

\* ----------------------------------------------------------------------- C12
\* C12: a cancel whose receiver amount is zero (a cancel before start_time
\* among them) is final at once: is_cancelled is set, the balance is unchanged,
\* the stream is not locked, no transfer is started and the fee ledger is
\* unchanged; the sender can then claim, and a claim transfers the entire
\* balance to the sender.
C12_ZeroCancelIsFinal ==
    [][\A id \in DOMAIN streams :
          LET s == streams[id] IN
          /\ \A gas_ok \in BOOLEAN :
                (cancel(id, s.sender, 1, gas_ok) /\ cancel_receiver_amt(s, now) = 0) =>
                    /\ streams'[id].is_cancelled
                    /\ streams'[id].balance = s.balance
                    /\ ~streams'[id].locked
                    /\ promises' = promises
                    /\ <<native_fees, accumulated_fees>>' = <<native_fees, accumulated_fees>>
                    /\ s.balance > 0 => claim_ok(streams'[id], s.sender, 1, TRUE)
          /\ \A gas_ok \in BOOLEAN :
                claim(id, s.sender, 1, gas_ok) =>
                    /\ streams'[id].balance = 0
                    /\ \A p \in promises' \ promises :
                          p.amount = s.balance /\ p.to = s.sender]_vars

\* A stream was cancelled before its start (its withdraw_time was left before
\* start_time) and the claim that followed is transferring the whole deposit
\* to the sender.
C12_Witness ==
    \E p \in promises :
        /\ p.kind = "claim"
        /\ p.stream_id \in DOMAIN streams
        /\ p.pre.is_cancelled
        /\ p.pre.withdraw_time < p.pre.start_time
        /\ p.amount = hist[p.stream_id].deposited
        /\ p.amount > 0

\* ----------------------------------------------------------------------- C13
\* A promise of a payout to the sender started by withdraw.
SenderWithdrawPromise(p) == p.kind = "withdraw" /\ p.caller = p.pre.sender

\* C13: when the transfer started by a sender withdraw fails,
\* internal_resolve_withdraw_stream adds the withdrawn amount back to the
\* balance, leaves withdraw_time, withdrawn_amount and the fee ledger alone and
\* unlocks: the stream equals the stream before the call and the sender can
\* withdraw the same amount again.
C13_FailedSenderWithdrawRestores ==
    [][\A p \in promises :
          (SenderWithdrawPromise(p) /\ on_transfer_result(p, FALSE)) =>
              /\ p.stream_id \in DOMAIN streams'
              /\ streams'[p.stream_id] = p.pre
              /\ StreamLedgerNext(p.pre) = StreamLedger(p.pre)
              /\ withdraw_ok(streams'[p.stream_id], p.caller, now, 1, TRUE)
              /\ sender_remaining(streams'[p.stream_id]) = p.amount]_vars

\* ----------------------------------------------------------------------- C14
\* C14: when the transfer started by claim fails, internal_resolve_claim_stream
\* restores the balance and unlocks, so that the stream equals the stream
\* before the claim and the sender can claim the same amount again; when the
\* transfer succeeds the balance stays 0 and the stream is unlocked.
C14_ClaimResolved ==
    [][\A p \in promises :
          /\ (p.kind = "claim" /\ on_transfer_result(p, FALSE)) =>
                /\ p.stream_id \in DOMAIN streams'
                /\ streams'[p.stream_id] = p.pre
                /\ claim_ok(streams'[p.stream_id], p.caller, 1, TRUE)
          /\ (p.kind = "claim" /\ on_transfer_result(p, TRUE)) =>
                /\ p.stream_id \in DOMAIN streams'
                /\ streams'[p.stream_id].balance = 0
                /\ ~streams'[p.stream_id].locked]_vars

\* ----------------------------------------------------------------------- C15
\* C15: claim is rejected unless the caller is the stream's sender, the stream
\* is cancelled, its balance is positive and it is not locked; an accepted claim
\* sets the balance to 0, locks the stream and starts a transfer of exactly the
\* previous balance to the sender, with no fee charged.
C15_ClaimGuardsAndEffect ==
    [][\A id \in DOMAIN streams, caller \in Callers, attached \in Yoctos,
          gas_ok \in BOOLEAN :
          LET s == streams[id] IN
          /\ claim_ok(s, caller, attached, gas_ok) =>
                /\ caller = s.sender
                /\ s.is_cancelled
                /\ s.balance > 0
                /\ ~s.locked
          /\ claim(id, caller, attached, gas_ok) =>
                /\ claim_ok(s, caller, attached, gas_ok)
                /\ streams'[id] = [s EXCEPT !.balance = 0, !.locked = TRUE]
                /\ \E p \in promises' :
                      /\ promises' = promises \cup {p} /\ p \notin promises
                      /\ p.to = s.sender /\ p.amount = s.balance /\ p.fee_amount = 0
                /\ <<native_fees, accumulated_fees>>' = <<native_fees, accumulated_fees>>]_vars

\* The sender's claim on a cancelled stream is in flight for the whole balance
\* the receiver's withdrawals had left.
C15_Witness ==
    \E p \in promises :
        /\ p.kind = "claim"
        /\ p.to = p.pre.sender
        /\ p.amount = p.pre.balance
        /\ p.stream_id \in DOMAIN streams
        /\ hist[p.stream_id].paid_receiver > 0
        /\ streams[p.stream_id].balance = 0
        /\ streams[p.stream_id].locked

\* ----------------------------------------------------------------------- C16
\* C16: withdraw is rejected, and so leaves the stream and the fee ledger
\* unchanged, whenever the stream is locked, or its balance is 0, or it is
\* cancelled, or now <= start_time, or the caller is neither the stream's
\* sender nor its receiver; a withdraw that is a step had none of these.
C16_WithdrawGuards ==
    [][\A id \in DOMAIN streams, caller \in Callers, attached \in Yoctos,
          gas_ok \in BOOLEAN :
          LET s == streams[id]
              refused == \/ s.locked
                         \/ s.balance = 0
                         \/ s.is_cancelled
                         \/ now <= s.start_time
                         \/ caller \notin {s.sender, s.receiver}
          IN /\ refused => ~withdraw_ok(s, caller, now, attached, gas_ok)
             /\ withdraw(id, caller, attached, gas_ok) => ~refused]_vars

\* A started, cancelled stream with a balance, not locked: withdraw is refused
\* to its receiver only because it is cancelled.
C16_Witness ==
    \E id \in DOMAIN streams :
        /\ streams[id].is_cancelled
        /\ ~withdraw_ok(streams[id], streams[id].receiver, now, 1, TRUE)
        /\ withdraw_ok([streams[id] EXCEPT !.is_cancelled = FALSE],
                       streams[id].receiver, now, 1, TRUE)

\* ----------------------------------------------------------------------- C17
\* Withdraw is refused to caller on stream s, whatever is attached.
WithdrawRefused(s, caller) ==
    \A attached \in Yoctos, gas_ok \in BOOLEAN :
        ~withdraw_ok(s, caller, now, attached, gas_ok)

FloorFee(amount, rate_bps) ==
    CHOOSE f \in 0 .. amount :
        /\ f * 10000 <= amount * rate_bps
        /\ (f + 1) * 10000 > amount * rate_bps

\* The step starts exactly one transfer, of `amount` to the account `to`.
StartsTransfer(to, amount) ==
    \E p \in promises' :
        /\ p \notin promises
        /\ promises' = promises \cup {p}
        /\ p.to = to
        /\ p.amount = amount

\* C18: a receiver withdraw on an unpaused stream at a time t with
\* start_time < t < end_time sets withdraw_time to t, takes the full amount
\* A = rate * (t - withdraw_time) off the balance, adds A to withdrawn_amount,
\* adds fee(A) to the fee ledger of the stream's asset, locks the stream and
\* starts a transfer of A - fee(A) to the receiver.
C18_ReceiverWithdrawEffect ==
    [][\A id \in DOMAIN streams, gas_ok \in BOOLEAN :
          LET s == streams[id]
              A == s.rate * (now - s.withdraw_time)
              fee == FloorFee(A, fee_rate)
          IN (/\ ~s.is_paused
              /\ s.start_time < now /\ now < s.end_time
              /\ withdraw(id, s.receiver, 1, gas_ok)) =>
                 /\ streams'[id] = [s EXCEPT !.withdraw_time = now,
                                             !.balance = @ - A,
                                             !.withdrawn_amount = @ + A,
                                             !.locked = TRUE]
                 /\ StreamLedgerNext(s) = StreamLedger(s) + fee
                 /\ StartsTransfer(s.receiver, A - fee)]_vars

\* The receiver's withdraw before the end of an unpaused stream is in flight,
\* with a fee charged and the rest being sent.
C18_Witness ==
    \E p \in promises :
        /\ ReceiverWithdrawPromise(p)
        /\ ~p.pre.is_paused
        /\ p.withdraw_time < p.pre.end_time
        /\ p.fee_amount > 0
        /\ p.amount > 0
        /\ p.amount + p.fee_amount = p.pre.rate * (p.withdraw_time - p.pre.withdraw_time)

FeeAmounts == {0, 1, 9, 399, 400, 401}
FeeRatesBps == {0, 25, 5000, 10000}

\* f is floor(amount * rate_bps / 10000).
IsFloorFee(f, amount, rate_bps) ==
    /\ f * 10000 <= amount * rate_bps
    /\ (f + 1) * 10000 > amount * rate_bps

\* C20: calculate_fee_amount(A) = floor(A * r / 10000) for every amount A and
\* fee rate r; a payout to the receiver whose fee is 0 leaves the fee ledger
\* unchanged and sends the full A, and otherwise the ledger of the stream's
\* asset grows by exactly fee(A) and fee(A) plus what is sent equals A.
C20_FeeArithmetic ==
    [][/\ \A A \in FeeAmounts, r \in FeeRatesBps : IsFloorFee(fee_of(A, r), A, r)
       /\ \A id \in DOMAIN streams, gas_ok \in BOOLEAN :
             LET s == streams[id]
                 A == receiver_amount(s, now)
             IN withdraw(id, s.receiver, 1, gas_ok) =>
                   /\ IsFloorFee(calculate_fee_amount(A), A, fee_rate)
                   /\ \A p \in promises' \ promises :
                         /\ IsFloorFee(p.fee_amount, A, fee_rate)
                         /\ p.fee_amount + p.amount = A
                         /\ StreamLedgerNext(s) = StreamLedger(s) + p.fee_amount
                         /\ p.fee_amount = 0 =>
                               /\ p.amount = A
                               /\ <<native_fees, accumulated_fees>>' =
                                     <<native_fees, accumulated_fees>>]_vars

\* Two payouts to receivers have happened under the same fee rate: one too
\* small for a fee, whose transfer is in flight for the full amount with the
\* ledger as it was, and before it one whose fee is in the ledger.
C20_Witness ==
    \E p \in promises :
        /\ ReceiverWithdrawPromise(p)
        /\ fee_rate > 0
        /\ p.fee_amount = 0
        /\ p.amount = p.withdrawal_amount
        /\ p.pre_ledger > 0
        /\ StreamLedger(p.pre) = p.pre_ledger

\* ----------------------------------------------------------------------- C21
\* The assets that have a fee ledger: NEAR and the tokens.
Assets == {NATIVE_NEAR_CONTRACT_ID} \cup Tokens

\* The fees held for asset a in the ledger (nf, af); 0 for a token without an
\* entry.
AssetLedgerIn(nf, af, a) ==
    IF a = NATIVE_NEAR_CONTRACT_ID THEN nf
    ELSE IF a \in DOMAIN af THEN af[a]
    ELSE 0

\* The step leaves the fees held for every asset as they are.
LedgerSame ==
    \A a \in Assets :
        AssetLedgerIn(native_fees', accumulated_fees', a) =
            AssetLedgerIn(native_fees, accumulated_fees, a)

\* The step is a payout to the receiver: a receiver withdraw, or a cancel with
\* a receiver amount above zero.
ReceiverPayoutStep ==
    \E id \in DOMAIN streams, gas_ok \in BOOLEAN :
        \/ withdraw(id, streams[id].receiver, 1, gas_ok)
        \/ /\ cancel_receiver_amt(streams[id], now) > 0
           /\ cancel(id, streams[id].sender, 1, gas_ok)

\* The step is the rollback of a failed payout to the receiver.
ReceiverRollbackStep ==
    \E p \in promises :
        /\ ReceiverWithdrawPromise(p) \/ p.kind = "cancel"
        /\ on_transfer_result(p, FALSE)

\* C21: a sender withdraw, a claim and their resolvers (after success and after
\* failure) leave the fees held for every asset unchanged; a step that changes
\* them is a receiver withdraw, a cancel with a receiver amount above zero, the
\* rollback of one of these, or a fee claim or its resolver.
C21_SenderPathsLeaveLedger ==
    [][/\ \A id \in DOMAIN streams, gas_ok \in BOOLEAN :
             (\/ withdraw(id, streams[id].sender, 1, gas_ok)
              \/ claim(id, streams[id].sender, 1, gas_ok)) => LedgerSame
       /\ \A p \in promises, res \in BOOLEAN :
             (/\ SenderWithdrawPromise(p) \/ p.kind = "claim"
              /\ on_transfer_result(p, res)) => LedgerSame
       /\ \/ LedgerSame
          \/ ReceiverPayoutStep
          \/ ReceiverRollbackStep
          \/ FeeClaimStep]_vars

\* A claim has failed and was rolled back on a stream whose asset holds fees of
\* the receiver's earlier withdrawal, and the sender's next claim is in flight.
C21_Witness ==
    \E p \in promises :
        /\ p.kind = "claim"
        /\ p.stream_id \in DOMAIN streams
        /\ hist[p.stream_id].failed
        /\ hist[p.stream_id].paid_receiver > 0
        /\ p.pre_ledger > 0
        /\ StreamLedger(p.pre) = p.pre_ledger

\* ----------------------------------------------------------------------- C22
\* C22: pause is rejected unless the caller is the stream's sender,
\* start_time < now < end_time, and the stream is not paused, not cancelled and
\* not locked; an accepted pause sets is_paused and paused_time = now and
\* changes nothing else: the other fields of the stream (balance and
\* withdraw_time among them, and the lock), the fee ledger and the transfers in
\* flight stay as they are.
C22_PauseGuardsAndEffect ==
    [][\A id \in DOMAIN streams, caller \in Callers :
          LET s == streams[id]
              allowed == /\ caller = s.sender
                         /\ s.start_time < now /\ now < s.end_time
                         /\ ~s.is_paused /\ ~s.is_cancelled /\ ~s.locked
          IN /\ pause_ok(s, caller, now) => allowed
             /\ pause(id, caller) =>
                   /\ allowed
                   /\ streams'[id] = [s EXCEPT !.is_paused = TRUE, !.paused_time = now]
                   /\ ~streams'[id].locked
                   /\ promises' = promises
                   /\ <<native_fees, accumulated_fees>>' = <<native_fees, accumulated_fees>>
                   /\ <<current_id, accounts, fee_rate, now>>' =
                         <<current_id, accounts, fee_rate, now>>]_vars

\* A stream has just been paused after its receiver withdrew: its withdraw_time
\* lies before the pause and its balance is what the withdrawal left.
C22_Witness ==
    \E id \in DOMAIN streams :
        LET s == streams[id] IN
        /\ s.is_paused /\ s.paused_time = now /\ ~s.locked
        /\ s.start_time < s.withdraw_time /\ s.withdraw_time < s.paused_time
        /\ hist[id].paid_receiver > 0
        /\ s.balance = hist[id].deposited - hist[id].paid_receiver

\* ----------------------------------------------------------------------- C23
\* The stream of the unit test of resume: created with start 10 and end 20,
\* paused at start + 1.
TestResumeStream ==
    pause_stream(validate_stream(1, "alice", "bob", 1, 10, 20, TRUE, FALSE, TRUE,
                                 NATIVE_NEAR_CONTRACT_ID), 11)

\* C23: resume is rejected unless the caller is the stream's sender and the
\* stream is paused, not cancelled and not locked; an accepted resume moves
\* withdraw_time forward by exactly min(now, end_time) - paused_time, clears
\* is_paused, resets paused_time to 0 and leaves the balance unchanged; a
\* stream paused at start + 1 and resumed at start + 4 has
\* withdraw_time = start + 3.
C23_ResumeGuardsAndEffect ==
    [][/\ \A id \in DOMAIN streams, caller \in Callers :
             LET s == streams[id]
                 allowed == /\ caller = s.sender
                            /\ s.is_paused /\ ~s.is_cancelled /\ ~s.locked
             IN /\ resume_ok(s, caller, now) => allowed
                /\ resume(id, caller) =>
                      /\ allowed
                      /\ streams'[id].withdraw_time =
                            s.withdraw_time + (Min(now, s.end_time) - s.paused_time)
                      /\ ~streams'[id].is_paused
                      /\ streams'[id].paused_time = 0
                      /\ streams'[id].balance = s.balance
       /\ resume_ok(TestResumeStream, "alice", 14)
       /\ resume_stream(TestResumeStream, 14).withdraw_time = 13
       /\ ~resume_stream(TestResumeStream, 14).is_paused]_vars

\* A stream was paused and resumed and has ended: its withdraw_time has moved
\* by the seconds it was paused inside its window, and nothing has left its
\* balance.
C23_Witness ==
    \E id \in DOMAIN streams :
        LET s == streams[id] IN
        /\ ~s.is_paused /\ s.paused_time = 0
        /\ s.paused_amount > 0
        /\ now > s.end_time
        /\ s.withdraw_time = s.start_time + hist[id].paused_units
        /\ s.end_time - s.start_time > hist[id].paused_units
        /\ s.balance = hist[id].deposited

\* ----------------------------------------------------------------------- C24
\* The cancel of stream id is final: the stream is cancelled and no transfer
\* started by its cancel is in flight.
CancelFinal(id) ==
    /\ streams[id].is_cancelled
    /\ \A p \in promises : ~(p.kind = "cancel" /\ p.stream_id = id)

\* Every call of pause, resume, cancel, withdraw or update on stream s is
\* rejected, whoever calls and whatever is attached.
RejectsAllButClaim(s) ==
    \A caller \in Callers :
        /\ \A attached \in Yoctos, gas_ok \in BOOLEAN :
              /\ ~withdraw_ok(s, caller, now, attached, gas_ok)
              /\ ~cancel_ok(s, caller, now, attached, gas_ok)
        /\ ~pause_ok(s, caller, now)
        /\ ~resume_ok(s, caller, now)
        /\ \/ ~update_caller_ok(s, caller, now)
           \/ \A start \in Times \cup {None}, end \in Times \cup {None},
                 rate \in Rates \cup {None}, attached \in Deposits :
                 ~update_ok(s, caller, now, start, end, rate, attached)

\* The step is a claim by the sender of stream id, or the resolver of the
\* transfer such a claim started.
ClaimStep(id) ==
    \/ \E gas_ok \in BOOLEAN : claim(id, streams[id].sender, 1, gas_ok)
    \/ \E p \in promises, res \in BOOLEAN :
          /\ p.kind = "claim" /\ p.stream_id = id /\ p.caller = streams[id].sender
          /\ on_transfer_result(p, res)

\* C24: once a cancel is final, the stream stays cancelled in every later state
\* in which it is stored, every call of pause, resume, cancel, withdraw and
\* update on it is rejected, and a step that changes the stream is a claim by
\* its sender (the call or the resolver of its transfer).
C24_CancelledIsFinal ==
    [][\A id \in DOMAIN streams :
          CancelFinal(id) =>
              /\ RejectsAllButClaim(streams[id])
              /\ id \in DOMAIN streams' =>
                    /\ streams'[id].is_cancelled
                    /\ streams'[id] # streams[id] => ClaimStep(id)]_vars

\* A cancelled stream inside its window, with a balance, whose sender's claim
\* has failed and was rolled back: but for the cancellation the sender could
\* pause it and the receiver could withdraw from it now.
C24_Witness ==
    \E id \in DOMAIN streams :
        LET s == streams[id]
            live == [s EXCEPT !.is_cancelled = FALSE]
        IN /\ CancelFinal(id)
           /\ hist[id].failed
           /\ ~s.locked /\ s.balance > 0
           /\ pause_ok(live, s.sender, now)
           /\ withdraw_ok(live, s.receiver, now, 1, TRUE)

\* ----------------------------------------------------------------------- C25
\* A call of create_stream with these arguments has one of the faults the
\* contract checks for.
CreateRefused(caller, receiver, rate, start, end, attached) ==
    \/ receiver = caller
    \/ start < now
    \/ end < start
    \/ rate = 0
    \/ rate >= MAX_RATE
    \/ attached # rate * (end - start)
    \/ accounts[caller] < StreamStorageCost

\* The step stores a new stream.
CreationStep == DOMAIN streams' \ DOMAIN streams # {}

\* C25: create_stream is rejected, and so leaves the stream store, the id
\* counter and the caller's storage allowance as they are, whenever
\* receiver = sender, or start < now, or end < start, or rate = 0, or
\* rate >= MAX_RATE, or the attached deposit differs from rate * (end - start),
\* or the caller's storage allowance is insufficient; a stream that was stored
\* had none of these faults.
C25_CreateRejects ==
    /\ [](\A caller \in Users, receiver \in Users, rate \in Rates, start \in Times,
             end \in Times, attached \in Deposits :
             CreateRefused(caller, receiver, rate, start, end, attached) =>
                 ~create_stream_ok(caller, receiver, rate, start, end, attached))
    /\ [][CreationStep =>
             \A id \in DOMAIN streams' \ DOMAIN streams :
                 LET s == streams'[id] IN
                 ~CreateRefused(s.sender, s.receiver, s.rate, s.start_time,
                                s.end_time, hist'[id].deposited)]_vars

\* The sender has used up the storage allowance with the streams created so
\* far, time has passed, and a call that is valid in every other respect is
\* rejected for the allowance alone.
C25_Witness ==
    /\ current_id = MaxCreated + 1
    /\ now > 0
    /\ accounts["alice"] < StreamStorageCost
    /\ validate_stream_ok("alice", "bob", 1, now, now + 1, now)
    /\ ~create_stream_ok("alice", "bob", 1, now, now + 1, 1)

\* ----------------------------------------------------------------------- C26
\* C26: a successful create_stream stores, under the id equal to the counter
\* before the call, a stream with balance = rate * (end - start),
\* withdraw_time = start, paused_time = 0 and is_paused = is_cancelled =
\* locked = false, keeps the streams already stored and advances the counter
\* by exactly 1; the counter never goes back and every stored id is below it,
\* so the ids of the streams ever created are pairwise distinct and increase
\* in the order of creation.
C26_CreateStoresStream ==
    [][/\ current_id' \in {current_id, current_id + 1}
       /\ DOMAIN streams' \subseteq DOMAIN streams \cup {current_id}
       /\ \A id \in DOMAIN streams : id < current_id /\ streams[id].id = id
       /\ (CreationStep \/ current_id' # current_id) =>
             /\ current_id' = current_id + 1
             /\ DOMAIN streams' = DOMAIN streams \cup {current_id}
             /\ \A id \in DOMAIN streams : streams'[id] = streams[id]
             /\ LET s == streams'[current_id] IN
                /\ s.id = current_id
                /\ s.balance = s.rate * (s.end_time - s.start_time)
                /\ s.balance = hist'[current_id].deposited
                /\ s.withdraw_time = s.start_time
                /\ s.paused_time = 0
                /\ ~s.is_paused /\ ~s.is_cancelled /\ ~s.locked]_vars

\* A second stream was created after the first was deleted: it is stored under
\* id 2 with its whole amount, the counter is at 3 and id 1 was not used again.
C26_Witness ==
    /\ DOMAIN streams = {2}
    /\ current_id = 3
    /\ streams[2].start_time > 0
    /\ streams[2].balance > 0
    /\ streams[2].withdraw_time = streams[2].start_time
    /\ now <= streams[2].start_time

\* ----------------------------------------------------------------------- C27
\* What a withdraw by `who` at time t pays out of stream s, before the fee
\* (nothing when the call is rejected).
WithdrawPays(s, who, t) ==
    IF ~withdraw_ok(s, who, t, 1, TRUE) THEN 0
    ELSE IF who = s.sender THEN sender_remaining(s)
    ELSE receiver_amount(s, t)

\* Stream s after a withdraw by `who` at time t whose transfer was confirmed
\* (s itself when the call is rejected).
AfterWithdraw(s, who, t) ==
    IF ~withdraw_ok(s, who, t, 1, TRUE) THEN s
    ELSE IF who = s.sender
         THEN resolve_withdraw_stream(withdraw_sender(s), sender_remaining(s),
                                      s.withdraw_time, TRUE)
         ELSE resolve_withdraw_stream(withdraw_receiver(s, t), receiver_amount(s, t),
                                      receiver_withdraw_time(s, t), TRUE)

\* C27: after end_time, on a stream that is not cancelled and whose transfers
\* were all confirmed, 'sender withdraws, then receiver withdraws' and
\* 'receiver withdraws, then sender withdraws' (the second call at the same or
\* a later time, both transfers confirmed) pay each party the same amount: the
\* receiver rate times the unpaused duration not yet withdrawn, the sender the
\* rest; and both orders end with balance = 0.
C27_OrderIndependent ==
    \A id \in DOMAIN streams :
        LET s == streams[id]
            h == hist[id]
        IN (/\ now > s.end_time
            /\ ~s.locked /\ ~s.is_cancelled /\ ~h.failed) =>
              \A t \in Times :
                 t >= now =>
                    LET sender_first == AfterWithdraw(s, s.sender, now)
                        receiver_first == AfterWithdraw(s, s.receiver, now)
                        unpaused == s.rate * (s.end_time - s.start_time)
                                       - s.rate * h.paused_units
                    IN /\ WithdrawPays(s, s.sender, now) =
                             WithdrawPays(receiver_first, s.sender, t)
                       /\ WithdrawPays(s, s.receiver, now) =
                             WithdrawPays(sender_first, s.receiver, t)
                       /\ WithdrawPays(s, s.receiver, now) = unpaused - h.paid_receiver
                       /\ WithdrawPays(s, s.sender, now) =
                             s.balance - (unpaused - h.paid_receiver)
                       /\ AfterWithdraw(sender_first, s.receiver, t).balance = 0
                       /\ AfterWithdraw(receiver_first, s.sender, t).balance = 0

\* After the end of a stream that was paused for a while, the sender and the
\* receiver have both withdrawn with their transfers confirmed: the sender was
\* paid for the paused seconds, the receiver for the others, and nothing is
\* left.
C27_Witness ==
    \E id \in DOMAIN streams :
        LET s == streams[id]
            h == hist[id]
        IN /\ now > s.end_time
           /\ ~s.locked /\ ~s.is_cancelled /\ ~h.failed
           /\ h.paused_units > 0
           /\ h.paid_sender = s.rate * h.paused_units
           /\ h.paid_receiver = s.rate * (s.end_time - s.start_time) - h.paid_sender
           /\ h.paid_receiver > 0
           /\ s.balance = 0

\* ----------------------------------------------------------------------- C28
\* While stream a is locked, a call of a lifecycle operation on another stream
\* b can be made exactly when the checks of the operation pass on b.
OtherStreamGuards(a, b) ==
    streams[a].locked =>
        \A caller \in Users :
            /\ (ENABLED withdraw(b, caller, 1, TRUE)) =
                  withdraw_ok(streams[b], caller, now, 1, TRUE)
            /\ (ENABLED pause(b, caller)) = pause_ok(streams[b], caller, now)
            /\ (ENABLED resume(b, caller)) = resume_ok(streams[b], caller, now)
            /\ (ENABLED cancel(b, caller, 1, TRUE)) =
                  cancel_ok(streams[b], caller, now, 1, TRUE)
            /\ (ENABLED claim(b, caller, 1, TRUE)) =
                  claim_ok(streams[b], caller, 1, TRUE)

\* A step that is a lifecycle operation on stream b leaves stream a alone and
\* takes b to what the operation makes of b's own fields.
OtherStreamEffect(a, b) ==
    LET s == streams[b] IN
    \A caller \in Users :
        /\ withdraw(b, caller, 1, TRUE) =>
              /\ streams'[a] = streams[a]
              /\ streams'[b] = IF caller = s.sender THEN withdraw_sender(s)
                                ELSE withdraw_receiver(s, now)
              /\ \A p \in promises' \ promises : p.stream_id = b /\ p.pre = s
        /\ pause(b, caller) =>
              streams'[a] = streams[a] /\ streams'[b] = pause_stream(s, now)
        /\ resume(b, caller) =>
              streams'[a] = streams[a] /\ streams'[b] = resume_stream(s, now)
        /\ cancel(b, caller, 1, TRUE) =>
              streams'[a] = streams[a] /\ streams'[b] = cancel_stream(s, now)
        /\ claim(b, caller, 1, TRUE) =>
              /\ streams'[a] = streams[a]
              /\ streams'[b] = claim_stream(s)
              /\ \A p \in promises' \ promises : p.stream_id = b /\ p.pre = s

\* C28: the lock is per stream: while stream a is locked, every lifecycle
\* operation on a different stream b is accepted or rejected by the checks on
\* b alone and has its effect on b alone, as if a were not locked, and the
\* resolver of a's transfer changes no field of b.
C28_LockPerStream ==
    /\ [](\A a \in DOMAIN streams, b \in DOMAIN streams : a # b => OtherStreamGuards(a, b))
    /\ [][\A a \in DOMAIN streams, b \in DOMAIN streams :
             (a # b /\ streams[a].locked) =>
                 /\ OtherStreamEffect(a, b)
                 /\ ResolverStep(a) =>
                       /\ b \in DOMAIN streams'
                       /\ streams'[b] = streams[b]
                       /\ hist'[b] = hist[b]]_vars

\* Two streams are locked at once, the transfer of each in flight: the
\* operation on the second was accepted while the first was locked.
C28_Witness ==
    \E a \in DOMAIN streams, b \in DOMAIN streams :
        /\ a # b
        /\ streams[a].locked /\ streams[b].locked
        /\ \E p \in promises, q \in promises :
              /\ p.stream_id = a /\ q.stream_id = b
              /\ p.kind = "withdraw" /\ q.kind = "claim"

\* ----------------------------------------------------------------------- C29
\* C29: in every state in which a stream has no transfer in flight, its
\* withdrawn_amount is the sum of the gross amounts of the payouts to its
\* receiver, by withdraw and by cancel, whose transfers succeeded; a payout
\* that failed and was rolled back does not count.
C29_WithdrawnIsPaid ==
    \A id \in DOMAIN streams :
        (/\ ~streams[id].locked
         /\ \A p \in promises : p.stream_id # id) =>
            streams[id].withdrawn_amount = hist[id].paid_receiver

\* ----------------------------------------------------------------------- C30
\* Stream s as cancel leaves it when the receiver's amount is r and the
\* transfer of r is in flight.
CancelledPaying(s, r) ==
    [s EXCEPT !.balance = @ - r, !.withdrawn_amount = @ + r,
              !.is_cancelled = TRUE, !.locked = TRUE]

\* C30: cancel starts no transfer to the sender: a cancel leaves
\* balance = balance before - receiver amount in the stream, where it stays
\* until the sender's claim, which transfers exactly that balance; the
\* rollback of a failed payout to the receiver gives the stream its balance
\* back and leaves nothing to claim beyond it, a confirmed one leaves the
\* sender's part to claim; and a failed claim leaves what the receiver was
\* paid as it is.
C30_RefundOnlyByClaim ==
    [][\A id \in DOMAIN streams :
          LET s == streams[id] IN
          /\ \A gas_ok \in BOOLEAN :
                cancel(id, s.sender, 1, gas_ok) =>
                    /\ \A p \in promises' \ promises : p.to = s.receiver
                    /\ streams'[id].balance = s.balance - cancel_receiver_amt(s, now)
          /\ (/\ CancelFinal(id)
              /\ id \in DOMAIN streams'
              /\ streams'[id].balance # s.balance) => ClaimStep(id)
          /\ \A gas_ok \in BOOLEAN :
                claim(id, s.sender, 1, gas_ok) =>
                    s.is_cancelled /\ StartsTransfer(s.sender, s.balance)
          /\ \A p \in promises :
                (p.kind = "claim" /\ p.stream_id = id /\ on_transfer_result(p, FALSE)) =>
                    /\ hist'[id].paid_receiver = hist[id].paid_receiver
                    /\ streams'[id].withdrawn_amount = s.withdrawn_amount
                    /\ streams'[id].balance = p.amount
          /\ (s.can_cancel /\ ~s.is_cancelled /\ ~s.locked) =>
                \A r \in 1 .. s.balance :
                    LET failed == resolve_cancel_stream(CancelledPaying(s, r), r, FALSE)
                        paid == resolve_cancel_stream(CancelledPaying(s, r), r, TRUE)
                    IN /\ failed.balance = s.balance
                       /\ ~failed.locked
                       /\ ~claim_ok(failed, s.sender, 1, TRUE)
                       /\ paid.balance = s.balance - r
                       /\ ~paid.locked
                       /\ paid.balance > 0 => claim_ok(paid, s.sender, 1, TRUE)]_vars

\* A stream was cancelled inside its window after its receiver had been paid,
\* and has ended: what the cancel left is still in the stream, nothing was
\* sent to the sender, and the sender can claim it.
C30_Witness ==
    \E id \in DOMAIN streams :
        LET s == streams[id]
            h == hist[id]
        IN /\ CancelFinal(id)
           /\ now > s.end_time
           /\ ~s.locked
           /\ \A p \in promises : p.stream_id # id
           /\ h.paid_receiver > 0 /\ h.paid_sender = 0 /\ ~h.failed
           /\ s.balance = h.deposited - h.paid_receiver
           /\ claim_ok(s, s.sender, 1, TRUE)

\* ----------------------------------------------------------------------- C31
\* C31: cancel is rejected, and so changes no state, unless the caller is the
\* stream's sender, can_cancel is true, now < end_time, and the stream is
\* neither cancelled already nor locked.
C31_CancelGuards ==
    [][\A id \in DOMAIN streams, caller \in Callers, attached \in Yoctos,
          gas_ok \in BOOLEAN :
          LET s == streams[id]
              allowed == /\ caller = s.sender
                         /\ s.can_cancel
                         /\ now < s.end_time
                         /\ ~s.is_cancelled
                         /\ ~s.locked
          IN /\ cancel_ok(s, caller, now, attached, gas_ok) => allowed
             /\ cancel(id, caller, attached, gas_ok) => allowed]_vars

\* A stream created without can_cancel, inside its window: cancel is refused
\* to its sender for that alone.
C31_Witness ==
    \E id \in DOMAIN streams :
        LET s == streams[id] IN
        /\ ~s.can_cancel
        /\ s.start_time < now
        /\ ~cancel_ok(s, s.sender, now, 1, TRUE)
        /\ cancel_ok([s EXCEPT !.can_cancel = TRUE], s.sender, now, 1, TRUE)

\* ----------------------------------------------------------------------- C32
\* The step changes the window, the rate or the deposits of stream id.
TermsChange(id) ==
    /\ id \in DOMAIN streams'
    /\ \/ streams'[id].start_time # streams[id].start_time
       \/ streams'[id].end_time # streams[id].end_time
       \/ streams'[id].rate # streams[id].rate
       \/ hist'[id].deposited # hist[id].deposited

\* C32: update is rejected, and so changes no state, unless the caller is the
\* stream's sender, can_update is true, the stream is native, not cancelled,
\* not locked and now < start_time; after an accepted update start_time,
\* end_time and rate hold the requested values (the old ones where none was
\* given), withdraw_time = start_time and balance >= rate * (end_time -
\* start_time), the balance having grown by the attached deposit when the new
\* stream amount exceeds the old balance and being unchanged otherwise.
C32_UpdateGuardsAndEffect ==
    [][\A id \in DOMAIN streams :
          LET s == streams[id]
              allowed(caller) == /\ caller = s.sender
                                 /\ s.can_update /\ s.is_native
                                 /\ ~s.is_cancelled /\ ~s.locked
                                 /\ now < s.start_time
          IN /\ \A caller \in Callers : update_caller_ok(s, caller, now) => allowed(caller)
             /\ TermsChange(id) =>
                   /\ allowed(s.sender)
                   /\ \E start \in Times \cup {None}, end \in Times \cup {None},
                         rate \in Rates \cup {None}, attached \in Deposits :
                         update(id, s.sender, start, end, rate, attached)
                   /\ \A start \in Times \cup {None}, end \in Times \cup {None},
                         rate \in Rates \cup {None}, attached \in Deposits :
                         update(id, s.sender, start, end, rate, attached) =>
                            LET u == streams'[id]
                                amount == u.rate * (u.end_time - u.start_time)
                            IN /\ u.start_time = IF start = None THEN s.start_time ELSE start
                               /\ u.end_time = IF end = None THEN s.end_time ELSE end
                               /\ u.rate = IF rate = None THEN s.rate ELSE rate
                               /\ u.withdraw_time = u.start_time
                               /\ u.balance >= amount
                               /\ u.balance = IF amount > s.balance
                                              THEN s.balance + attached
                                              ELSE s.balance]_vars

\* An updatable stream before its start whose window was moved later by an
\* update that brought more than the new amount needs: withdraw_time is the
\* new start_time and the balance is everything deposited.
C32_Witness ==
    \E id \in DOMAIN streams :
        LET s == streams[id] IN
        /\ s.can_update /\ s.is_native /\ ~s.is_cancelled
        /\ now < s.start_time
        /\ s.withdraw_time = s.start_time
        /\ s.balance = hist[id].deposited
        /\ s.balance > s.rate * (s.end_time - s.start_time)
        /\ s.rate * (s.end_time - s.start_time) > 0

\* ----------------------------------------------------------------------- C33
\* The step is an update of stream id by its sender before start_time.
UpdateBeforeStart(id) ==
    /\ now < streams[id].start_time
    /\ \E start \in Times \cup {None}, end \in Times \cup {None},
          rate \in Rates \cup {None}, attached \in Deposits :
          update(id, streams[id].sender, start, end, rate, attached)

\* The step is the rollback of a failed transfer of stream id, and leaves the
\* balance at most where it was before the operation that is rolled back.
RollbackWithinPre(id) ==
    \E p \in promises :
        /\ p.kind \in StreamKinds /\ p.stream_id = id
        /\ on_transfer_result(p, FALSE)
        /\ streams'[id].balance <= p.pre.balance

\* C33: a step that raises the balance of a stream is an update before
\* start_time or the rollback of a failed transfer, and a rollback does not
\* raise the balance above its value before the operation rolled back; every
\* other step leaves the balance equal or lower.
C33_BalanceRaisedOnlyBy ==
    [][\A id \in DOMAIN streams :
          (id \in DOMAIN streams' /\ streams'[id].balance > streams[id].balance) =>
              UpdateBeforeStart(id) \/ RollbackWithinPre(id)]_vars

\* A stream whose receiver was paid once and whose later transfer failed: the
\* rollback has put the balance back to everything deposited less what was
\* paid.
C33_Witness ==
    \E id \in DOMAIN streams :
        LET s == streams[id]
            h == hist[id]
        IN /\ h.failed /\ ~s.locked
           /\ \A p \in promises : p.stream_id # id
           /\ h.paid_receiver > 0
           /\ s.balance > 0
           /\ s.balance = h.deposited - h.paid_receiver - h.paid_sender

\* ----------------------------------------------------------------------- C34
\* Stream s can be deleted now: it has ended and holds nothing.
Deletable(s) == s.end_time < now /\ s.balance = 0

\* C34: delete_streams removes a stream only when end_time < now and
\* balance = 0; a call that names a stream without these is rejected and
\* leaves every stream in place, and nothing but delete_streams by the manager
\* removes a stream; after end_time, once the sender's and the receiver's
\* withdrawals were both confirmed, the stream has balance 0 and the manager
\* can delete it.
C34_DeleteOnlyEmptyEnded ==
    /\ [](\A ids \in SUBSET (1 .. MaxPair) :
             /\ (\E id \in ids : id \notin DOMAIN streams \/ ~Deletable(streams[id])) =>
                   \A caller \in Callers : ~ENABLED delete_streams(ids, caller, 1)
             /\ \A caller \in Callers \ {manager_id} :
                   ~ENABLED delete_streams(ids, caller, 1))
    /\ [](\A id \in DOMAIN streams :
             LET s == streams[id]
                 h == hist[id]
             IN (/\ now > s.end_time
                 /\ ~s.locked /\ ~s.is_cancelled /\ ~h.failed
                 /\ h.paid_sender > 0
                 /\ h.paid_receiver > 0 /\ s.withdraw_time >= s.end_time) =>
                    /\ s.balance = 0
                    /\ ENABLED delete_streams({id}, manager_id, 1))
    /\ [][DOMAIN streams \ DOMAIN streams' # {} =>
             /\ \A id \in DOMAIN streams \ DOMAIN streams' : Deletable(streams[id])
             /\ delete_streams(DOMAIN streams \ DOMAIN streams', manager_id, 1)
             /\ \A id \in DOMAIN streams' : streams'[id] = streams[id]]_vars

\* Two streams after their end: the sender and the receiver of the first have
\* both been paid and it holds nothing, so it can be deleted; the second still
\* holds funds, so a call that names both is rejected.
C34_Witness ==
    \E a \in DOMAIN streams, b \in DOMAIN streams :
        /\ a # b
        /\ Deletable(streams[a])
        /\ ~streams[a].locked /\ ~streams[a].is_cancelled /\ ~hist[a].failed
        /\ hist[a].paid_sender > 0 /\ hist[a].paid_receiver > 0
        /\ streams[b].end_time < now /\ streams[b].balance > 0
        /\ ENABLED delete_streams({a}, manager_id, 1)
        /\ ~ENABLED delete_streams({a, b}, manager_id, 1)

\* ----------------------------------------------------------------------- C35
\* The fields of a stream that identify it and its parties and fix its
\* permissions.
Identity(s) ==
    <<s.id, s.sender, s.receiver, s.is_native, s.contract_id, s.can_cancel, s.can_update>>

\* The terms of a stream.
Terms(s) == <<s.start_time, s.end_time, s.rate>>

\* C35: while a stream exists no step changes its id, sender, receiver,
\* is_native, contract_id, can_cancel or can_update, and its sender differs
\* from its receiver in every state; start_time, end_time and rate are changed
\* only by an update, which is accepted only while now < start_time, so they
\* are constant once the stream has started.
C35_IdentityAndTermsFixed ==
    /\ [](\A id \in DOMAIN streams :
             /\ streams[id].id = id
             /\ streams[id].sender # streams[id].receiver
             /\ \A caller \in Callers :
                   update_caller_ok(streams[id], caller, now) => now < streams[id].start_time)
    /\ [][\A id \in DOMAIN streams \cap DOMAIN streams' :
             LET s == streams[id]
                 u == streams'[id]
             IN /\ Identity(u) = Identity(s)
                /\ Terms(u) # Terms(s) => UpdateBeforeStart(id)
                /\ now >= s.start_time => Terms(u) = Terms(s)]_vars

\* An updatable stream whose terms were changed by an update, which has since
\* started and paid its receiver.
C35_Witness ==
    \E id \in DOMAIN streams :
        LET s == streams[id]
            h == hist[id]
        IN /\ s.can_update /\ s.is_native
           /\ now >= s.start_time
           /\ h.deposited > s.rate * (s.end_time - s.start_time)
           /\ h.paid_receiver > 0
           /\ ~s.locked /\ ~s.is_cancelled

\* ----------------------------------------------------------------------- C36
\* What a non-cancelled stream still owes its receiver.
StillOwed(s) ==
    IF s.withdraw_time >= s.end_time THEN 0
    ELSE IF s.is_paused THEN s.rate * (s.paused_time - s.withdraw_time)
    ELSE s.rate * (s.end_time - s.withdraw_time)

\* The balance covers what is still owed, and a paused stream was not paid
\* beyond its pause.
Covered(s) ==
    /\ s.balance >= StillOwed(s)
    /\ (s.is_paused /\ s.withdraw_time < s.end_time) => s.withdraw_time <= s.paused_time

\* No subtraction of withdraw underflows in a call that passes its checks.
WithdrawSubtractions(s) ==
    withdraw_common_ok(s, s.sender, now, 1) =>
        /\ now > s.end_time => sender_owed(s) >= 0 /\ s.balance >= sender_owed(s)
        /\ (now >= s.end_time => s.withdraw_time < s.end_time) =>
              /\ receiver_time_elapsed(s, now) >= 0
              /\ s.balance >= receiver_amount(s, now)

\* No subtraction of cancel underflows in a call that passes its checks.
CancelSubtractions(s) ==
    (~s.locked /\ s.can_cancel /\ s.end_time > now /\ ~s.is_cancelled) =>
        /\ cancel_receiver_amt(s, now) >= 0
        /\ s.balance >= cancel_receiver_amt(s, now)

\* C36: in every reachable state a non-cancelled stream's balance is at least
\* what is still owed to the receiver and, while paused with withdraw_time <
\* end_time, withdraw_time <= paused_time, so that none of the subtractions
\* of withdraw and cancel underflows and aborts an otherwise valid call.
C36_NoUnderflow ==
    \A id \in DOMAIN streams :
        ~streams[id].is_cancelled =>
            /\ Covered(streams[id])
            /\ WithdrawSubtractions(streams[id])
            /\ CancelSubtractions(streams[id])

\* ----------------------------------------------------------------------- C37
\* The transfers of stream id that await their callback.
InFlight(id) == {p \in promises : p.kind \in StreamKinds /\ p.stream_id = id}

RECURSIVE GrossOf(_)
\* The gross amount of a set of transfers.
GrossOf(ps) ==
    IF ps = {} THEN 0
    ELSE LET p == CHOOSE q \in ps : TRUE IN p.withdrawal_amount + GrossOf(ps \ {p})

\* C37: for each stream, in every reachable state, what the sender deposited
\* at create and update equals the balance plus the gross amounts of the
\* confirmed payouts to the receiver, plus the confirmed refunds and claims of
\* the sender, plus the gross amount of the transfer in flight, so that what
\* is paid out for a stream, fees included, never exceeds what was deposited.
C37_Conservation ==
    \A id \in DOMAIN streams :
        LET s == streams[id]
            h == hist[id]
        IN /\ h.deposited =
                 s.balance + h.paid_receiver + h.paid_sender + GrossOf(InFlight(id))
           /\ h.paid_receiver + h.paid_sender <= h.deposited

\* ----------------------------------------------------------------------- C38
\* C38: a stream with a transfer in flight (locked) is never removed from the
\* stream store, so the callback of every transfer in flight finds its stream.
C38_LockedNeverRemoved ==
    /\ [](\A p \in promises : p.kind \in StreamKinds => p.stream_id \in DOMAIN streams)
    /\ [][\A id \in DOMAIN streams : streams[id].locked => id \in DOMAIN streams']_vars

\* ----------------------------------------------------------------------- C39
\* The transfers in flight that a stream operation started.
StreamTransfers == {p \in promises : p.kind \in StreamKinds}

\* C39: for every stream locked is true exactly when one transfer started by
\* it awaits its callback: no stream has two transfers in flight, every
\* transfer in flight belongs to a stored, locked stream, and the amount its
\* callback may restore is what the operation that set the lock took from the
\* balance.
C39_LockedIffInFlight ==
    /\ \A id \in DOMAIN streams :
          /\ Cardinality(InFlight(id)) <= 1
          /\ streams[id].locked <=> Cardinality(InFlight(id)) = 1
          /\ \A p \in InFlight(id) :
                p.withdrawal_amount = p.pre.balance - streams[id].balance
    /\ \A p \in StreamTransfers :
          p.stream_id \in DOMAIN streams /\ streams[p.stream_id].locked

\* ----------------------------------------------------------------------- C40
\* The full product of the terms of stream s is above its balance.
Underfunded(s) ==
    Less(Widen(s.balance, U128Limbs + U128Limbs),
         stream_amount_full(s.rate, s.start_time, s.end_time))

====
